---- MODULE Spec2Model ----
(***************************************************************************)
(* A model of the front end of dragon-script (drgns): the speculative      *)
(* Lookahead cursor (lookahead.rs), the character arena with its Reader    *)
(* (arena.rs), the modal Lexer (lexer.rs), the Parser (parser.rs), the     *)
(* walk of the syntax tree (parser/ast.rs) and the stores of source text   *)
(* with their views and readers (arena.rs, source/).                       *)
(*                                                                         *)
(* Characters are one-character strings, an Option's None is the string    *)
(* "None", a String is a sequence of characters.                           *)
(***************************************************************************)
EXTENDS Integers, Sequences, FiniteSets, TLC

VARIABLES
    items,      \* the sequence the wrapped iterator yields
    la,         \* the Lookahead cursor: [main, branch, current]
    laRet,      \* what the last peek()/next() returned
    laOps,      \* the last three calls made on the cursor, oldest first
    laAnchor,   \* the item next() would have returned after the last commit()/next()
    consumed,   \* items permanently consumed: returned by next(), or peeked and committed
    pending,    \* items peeked since the last reset()/commit()/next()
    arena,      \* STRING_ARENA: the characters interned so far
    lx,         \* the Lexer: its Reader, its mode stack, whether the process panicked
    tokens,     \* the tokens Lexer::next has returned, in order
    errors,     \* the diagnostics pushed to the error handler, in order
    done,       \* the last Lexer::next returned None
    stream,     \* what the Parser's Lexer yields: its tokens, and the diagnostics lexing each reports
    eh,         \* the Parser's ErrorHandler: [errors, had_error]
    pr,         \* the last call made on the Parser: its name, argument, cursor at entry, result
    ast,        \* the Expression that is walked
    visited,    \* the callbacks walk has made on the Visitor, in order
    ev,         \* the ExpressionEval visitor: its stack of values, whether it panicked
    vc,         \* a VecCursor over items: [back, front, previous]
    alive,      \* the owner of the source text (Rc<SourceArena>, Rc<Source>) is not dropped
    views,      \* the views intern has returned, each with the text interned
    rd,         \* a Reader over the arena
    yielded,    \* the characters the Reader has returned since it was made
    csr,        \* a Reader of source/reader.rs: [back, front]
    call        \* the last call made on the store, a view or a reader: [op, arg, ret, crashed]

laVars == <<items, la, laRet, laOps, laAnchor, consumed, pending>>
lxVars == <<arena, lx, tokens, errors, done>>
prVars == <<stream, eh, pr>>
wkVars == <<ast, visited, ev, vc>>
stVars == <<alive, views, rd, yielded, csr, call>>
auxVars == <<ast, visited, ev, vc, alive, views, rd, yielded, csr, call>>
vars == <<items, la, laRet, laOps, laAnchor, consumed, pending,
          arena, lx, tokens, errors, done, stream, eh, pr, ast, visited, ev, vc,
          alive, views, rd, yielded, csr, call>>

None == "None"

\* the outcome of a call that panics
Panic == "Panic"

(***************************************************************************)
(* Bounds of the model.                                                    *)
(***************************************************************************)
MaxItems == 3
MaxLenAny == 2
MaxLenDelim == 4
MaxLenWord == 3
MaxLenOp == 3
MaxChainOps == 2
MaxUnitsAll == 3
MaxUnitsGroup == 4
MaxCalls == 2
MaxUnitsSync == 4

\* F applied to the value of x: a let-binding that computes x once.
Bind(x, F(_)) == CHOOSE out \in {F(v) : v \in {x}} : TRUE

\* All sequences over S of length at most n.
SeqsUpTo(S, n) == UNION {[1..k -> S] : k \in 0..n}

(***************************************************************************)
(* lookahead.rs: Lookahead<I>                                              *)
(***************************************************************************)
ItemValues == {"x", "y"}

\* I::next of the wrapped iterator at position pos (pos items already yielded).
iter_next(pos) ==
    IF pos < Len(items)
    THEN [pos |-> pos + 1, item |-> items[pos + 1]]
    ELSE [pos |-> pos, item |-> None]

\* lookahead(iterable)
lookahead == [main |-> 0, branch |-> 0, current |-> None]

Lookahead_peek_AdvancesMain(l) ==
    LET r == iter_next(l.main)
    IN  [l EXCEPT !.main = r.pos, !.current = r.item]

\* Lookahead::peek
Lookahead_peek(l) ==
    LET r == iter_next(l.branch)
    IN  [l EXCEPT !.branch = r.pos, !.current = r.item]

Lookahead_reset_KeepsBranch(l) == l

\* Lookahead::reset
Lookahead_reset(l) == [l EXCEPT !.branch = l.main]

Lookahead_commit_Swap(l) == [l EXCEPT !.main = l.branch, !.branch = l.main]

\* Lookahead::commit
Lookahead_commit(l) == [l EXCEPT !.main = l.branch]

Lookahead_next_NoResync(l) ==
    LET r == iter_next(l.main)
    IN  [l EXCEPT !.main = r.pos, !.current = r.item]

Lookahead_next_FromBranch(l) ==
    LET r == iter_next(l.branch)
    IN  [main |-> r.pos, branch |-> r.pos, current |-> r.item]

\* <Lookahead as Iterator>::next
Lookahead_next(l) ==
    LET r == iter_next(l.main)
    IN  [main |-> r.pos, branch |-> r.pos, current |-> r.item]

Shift(ops, op) == <<ops[2], ops[3], op>>

\* a call of peek()
DoPeek ==
    /\ la' = Lookahead_peek(la)
    /\ laRet' = la'.current
    /\ laOps' = Shift(laOps, "peek")
    /\ pending' = IF la'.current # None THEN Append(pending, la'.current) ELSE pending
    /\ UNCHANGED <<items, laAnchor, consumed>>
    /\ UNCHANGED lxVars
    /\ UNCHANGED prVars
    /\ UNCHANGED auxVars

\* a call of reset()
DoReset ==
    /\ la' = Lookahead_reset(la)
    /\ laOps' = Shift(laOps, "reset")
    /\ pending' = <<>>
    /\ UNCHANGED <<items, laRet, laAnchor, consumed>>
    /\ UNCHANGED lxVars
    /\ UNCHANGED prVars
    /\ UNCHANGED auxVars

\* a call of commit()
DoCommit ==
    /\ la' = Lookahead_commit(la)
    /\ laOps' = Shift(laOps, "commit")
    /\ consumed' = consumed \o pending
    /\ pending' = <<>>
    /\ laAnchor' = iter_next(la'.main).item
    /\ UNCHANGED <<items, laRet>>
    /\ UNCHANGED lxVars
    /\ UNCHANGED prVars
    /\ UNCHANGED auxVars

\* a call of next()
DoNext ==
    /\ la' = Lookahead_next(la)
    /\ laRet' = la'.current
    /\ laOps' = Shift(laOps, "next")
    /\ consumed' = IF la'.current # None THEN Append(consumed, la'.current) ELSE consumed
    /\ pending' = <<>>
    /\ laAnchor' = iter_next(la'.main).item
    /\ UNCHANGED items
    /\ UNCHANGED lxVars
    /\ UNCHANGED prVars
    /\ UNCHANGED auxVars

(***************************************************************************)
(* arena.rs: STRING_ARENA, Span, Reader                                    *)
(***************************************************************************)

\* Span::into_string: iter().skip(start).take(length), the characters
\* arena[start .. start + length) as far as the arena has them
Span_into_string(sp) ==
    SubSeq(arena, sp.start + 1,
           IF sp.start + sp.length <= Len(arena) THEN sp.start + sp.length ELSE Len(arena))

\* <str as Debug>::fmt for one character: what {:?} writes for it
escape_debug(c) ==
    CASE c = "\"" -> <<"\\", "\"">>
      [] c = "\\" -> <<"\\", "\\">>
      [] c = "\n" -> <<"\\", "n">>
      [] c = "\r" -> <<"\\", "r">>
      [] c = "\t" -> <<"\\", "t">>
      [] c = "'"  -> <<"'">>
      [] OTHER    -> <<c>>

RECURSIVE escape_debug_str(_)
escape_debug_str(s) ==
    IF s = <<>> THEN <<>> ELSE escape_debug(Head(s)) \o escape_debug_str(Tail(s))

\* <Span as Display>::fmt, hence Span::to_string: write!(f, "{:?}", slice)
Span_to_string(sp) ==
    <<"\"">> \o escape_debug_str(Span_into_string(sp)) \o <<"\"">>

\* <SourceView as Display>::fmt (source/view.rs): f.write_str(&slice), then
\* write!(f, "{}", slice)
SourceView_to_string(sp) == Span_into_string(sp) \o Span_into_string(sp)

\* Reader::new: a reader over the whole arena
Reader_new ==
    [start |-> 0, length |-> 0,
     boundary |-> [kind |-> "Absolute", start |-> 0, length |-> 0]]

\* Reader::head_idx
head_idx(r) == r.start + r.length

\* Reader::rel_bounds
rel_bounds(r) ==
    IF r.boundary.kind = "Absolute" THEN Len(arena) ELSE r.boundary.length

\* a reader that stays at its end once the Lexer has reported exhaustion
is_at_end_Fused(r) == done \/ head_idx(r) >= rel_bounds(r)

\* Reader::is_at_end
is_at_end(r) == head_idx(r) >= rel_bounds(r)

\* Reader::peek (indexing the arena out of its range panics)
peek(r) ==
    IF is_at_end(r) THEN None
    ELSE IF head_idx(r) < Len(arena) THEN arena[head_idx(r) + 1] ELSE Panic

\* Reader::peek_n
peek_n(r, n) ==
    IF head_idx(r) + n >= rel_bounds(r) THEN None ELSE arena[head_idx(r) + n + 1]

\* Reader::peek2: the character after the one peek() gives
peek2(r) == peek_n(r, 1)

advance_head_Unchecked(r) == [r EXCEPT !.length = @ + 1]

\* Reader::advance_head, Iterator for Reader::next: the reader afterwards
\* (the character returned is peek(r))
advance_head(r) ==
    IF peek(r) \in {None, Panic} THEN r ELSE [r EXCEPT !.length = @ + 1]

\* Reader::advance_tail: the reader afterwards (the span returned is current_span(r))
advance_tail(r) == [r EXCEPT !.start = head_idx(r), !.length = 0]

\* Reader::current
current_span(r) == [start |-> r.start, length |-> r.length]

(***************************************************************************)
(* lexer.rs: Lexer                                                         *)
(***************************************************************************)
Digits == {"0", "1", "2", "3", "4", "5", "6", "7", "8", "9"}
Letters ==
    {"a", "b", "c", "d", "e", "f", "g", "h", "i", "j", "k", "l", "m",
     "n", "o", "p", "q", "r", "s", "t", "u", "v", "w", "x", "y", "z",
     "A", "B", "C", "D", "E", "F", "G", "H", "I", "J", "K", "L", "M",
     "N", "O", "P", "Q", "R", "S", "T", "U", "V", "W", "X", "Y", "Z"}

\* char::is_ascii_digit, char::is_ascii_alphabetic, char::is_ascii_alphanumeric
is_ascii_digit(c) == c \in Digits
is_ascii_alphabetic(c) == c \in Letters
is_ascii_alphanumeric(c) == c \in Letters \cup Digits

\* the closure is_digit_or_sep of lex_number_literal
is_digit_or_sep(c) == is_ascii_digit(c) \/ c = "_"

\* KEYWORDS, as pairs <<text, token type>>
KEYWORDS ==
    {
      <<<<"a", "n", "d">>, "And">>,
      <<<<"a", "s", "r">>, "Asr">>,
      <<<<"b", "o", "o", "l">>, "Bool">>,
      <<<<"c", "o", "n", "t", "i", "n", "u", "e">>, "Continue">>,
      <<<<"c", "o", "p", "y">>, "Copy">>,
      <<<<"f", "a", "l", "s", "e">>, "False">>,
      <<<<"f", "l", "o", "a", "t">>, "Float">>,
      <<<<"f", "o", "r">>, "For">>,
      <<<<"f", "u", "n", "c", "t", "i", "o", "n">>, "Function">>,
      <<<<"i", "n", "t">>, "Int">>,
      <<<<"i", "n">>, "In">>,
      <<<<"l", "a", "n", "d">>, "Land">>,
      <<<<"l", "i", "s", "t">>, "List">>,
      <<<<"l", "n", "o", "t">>, "Lnot">>,
      <<<<"l", "o", "r">>, "Lor">>,
      <<<<"l", "s", "l">>, "Lsl">>,
      <<<<"l", "s", "r">>, "Lsr">>,
      <<<<"l", "x", "o", "r">>, "Lxor">>,
      <<<<"m", "o", "v", "e">>, "Move">>,
      <<<<"m", "u", "t">>, "Mut">>,
      <<<<"n", "o", "n", "e">>, "None_">>,
      <<<<"n", "o", "t">>, "Not">>,
      <<<<"o", "b", "j">>, "Obj">>,
      <<<<"o", "r">>, "Or">>,
      <<<<"r", "e", "t", "u", "r", "n">>, "Return">>,
      <<<<"s", "t", "r">>, "Str">>,
      <<<<"s", "y", "m">>, "Sym">>,
      <<<<"t", "r", "u", "e">>, "True">>,
      <<<<"_">>, "Underscore">>,
      <<<<"u", "s", "e">>, "Use">>,
      <<<<"x", "o", "r">>, "Xor">>
    }

\* KEYWORDS.get(text): the token type, or None
keyword_get(text) ==
    IF \E k \in KEYWORDS : k[1] = text
    THEN (CHOOSE k \in KEYWORDS : k[1] = text)[2]
    ELSE None

\* str::replace("_", "")
RECURSIVE remove_sep(_)
remove_sep(s) ==
    IF s = <<>> THEN <<>>
    ELSE IF Head(s) = "_" THEN remove_sep(Tail(s))
    ELSE <<Head(s)>> \o remove_sep(Tail(s))

DigitValue(c) == CHOOSE n \in 0..9 : <<"0", "1", "2", "3", "4", "5", "6", "7", "8", "9">>[n + 1] = c

RECURSIVE decimal_value(_)
decimal_value(s) ==
    IF s = <<>> THEN 0
    ELSE 10 * decimal_value(SubSeq(s, 1, Len(s) - 1)) + DigitValue(s[Len(s)])

\* str::parse::<u64>: whether the text parses (an optional +, then digits only)
parses_u64(s) ==
    LET d == IF s # <<>> /\ Head(s) = "+" THEN Tail(s) ELSE s
    IN  d # <<>> /\ \A i \in 1..Len(d) : is_ascii_digit(d[i])

\* str::parse::<f64>: whether the text parses, for texts of digits and dots
\* (an optional sign, digits with at most one dot, at least one digit)
parses_f64(s) ==
    LET d == IF s # <<>> /\ Head(s) \in {"+", "-"} THEN Tail(s) ELSE s
    IN  /\ \A i \in 1..Len(d) : is_ascii_digit(d[i]) \/ d[i] = "."
        /\ Cardinality({i \in 1..Len(d) : d[i] = "."}) <= 1
        /\ \E i \in 1..Len(d) : is_ascii_digit(d[i])

NoLiteral == [kind |-> "None", val |-> <<>>]

\* What one scan leaves: the reader (the token's characters in its window), the mode
\* stack, the token's type and literal, the diagnostics pushed, and whether
\* crash_and_burn ended the process.
Scan(r, st, tt, lit, errs) ==
    [reader |-> r, mode_stack |-> st, token_type |-> tt, literal |-> lit,
     errs |-> errs, panicked |-> FALSE]

\* error_handler::fatal_unreachable: crash_and_burn panics
fatal_unreachable(L) ==
    [reader |-> L.reader, mode_stack |-> L.mode_stack, token_type |-> None,
     literal |-> NoLiteral, errs |-> <<>>, panicked |-> TRUE]

\* self.reader.next() called n times
RECURSIVE Adv(_, _)
Adv(r, n) == IF n = 0 THEN r ELSE Adv(advance_head(r), n - 1)

\* a token with no literal, after n more characters
Plain(L, n, tt) == Scan(Adv(L.reader, n), L.mode_stack, tt, NoLiteral, <<>>)

\* Lexer::ambiguous_plus: the token that starts with +, the leading character consumed
ambiguous_plus(L) ==
    LET p == peek(L.reader)
        p2 == peek2(L.reader)
    IN  IF p = "+" /\ p2 = "=" THEN Plain(L, 2, "PlusPlusEquals")
        ELSE IF p = "+" THEN Plain(L, 1, "PlusPlus")
        ELSE IF p = "=" THEN Plain(L, 1, "PlusEquals")
        ELSE Plain(L, 0, "Plus")

ambiguous_mul_ShortFirst(L) ==
    LET p == peek(L.reader)
    IN  IF p = "*" THEN Plain(L, 1, "MulMul")
        ELSE IF p = "=" THEN Plain(L, 1, "MulEquals")
        ELSE Plain(L, 0, "Mul")

\* Lexer::ambiguous_mul: the token that starts with *, the leading character consumed
ambiguous_mul(L) ==
    LET p == peek(L.reader)
        p2 == peek2(L.reader)
    IN  IF p = "*" /\ p2 = "=" THEN Plain(L, 2, "MulMulEquals")
        ELSE IF p = "*" THEN Plain(L, 1, "MulMul")
        ELSE IF p = "=" THEN Plain(L, 1, "MulEquals")
        ELSE Plain(L, 0, "Mul")

\* Lexer::ambiguous_minus: the token that starts with -, the leading character consumed
ambiguous_minus(L) ==
    LET p == peek(L.reader)
        p2 == peek2(L.reader)
    IN  IF p = "=" THEN Plain(L, 1, "MinusEquals")
        ELSE IF p = ">" THEN Plain(L, 1, "Arrow")
        ELSE Plain(L, 0, "Minus")

\* Lexer::ambiguous_mod: the token that starts with %, the leading character consumed
ambiguous_mod(L) ==
    LET p == peek(L.reader)
        p2 == peek2(L.reader)
    IN  IF p = "=" THEN Plain(L, 1, "ModEquals")
        ELSE Plain(L, 0, "Mod")

\* Lexer::ambiguous_less: the token that starts with <, the leading character consumed
ambiguous_less(L) ==
    LET p == peek(L.reader)
        p2 == peek2(L.reader)
    IN  IF p = "<" THEN Plain(L, 1, "DoubleLess")
        ELSE IF p = "=" THEN Plain(L, 1, "LessEquals")
        ELSE Plain(L, 0, "Less")

\* Lexer::ambiguous_greater: the token that starts with >, the leading character consumed
ambiguous_greater(L) ==
    LET p == peek(L.reader)
        p2 == peek2(L.reader)
    IN  IF p = ">" THEN Plain(L, 1, "DoubleGreater")
        ELSE IF p = "=" THEN Plain(L, 1, "GreaterEquals")
        ELSE Plain(L, 0, "Greater")

\* Lexer::ambiguous_colon: the token that starts with :, the leading character consumed
ambiguous_colon(L) ==
    LET p == peek(L.reader)
        p2 == peek2(L.reader)
    IN  IF p = ":" THEN Plain(L, 1, "ColonColon")
        ELSE IF p = "=" THEN Plain(L, 1, "ColonEquals")
        ELSE Plain(L, 0, "Colon")

\* Lexer::ambiguous_bang: the token that starts with !, the leading character consumed
ambiguous_bang(L) ==
    LET p == peek(L.reader)
        p2 == peek2(L.reader)
    IN  IF p = "=" THEN Plain(L, 1, "BangEquals")
        ELSE Plain(L, 0, "Bang")

\* Lexer::ambiguous_question: the token that starts with ?, the leading character consumed
ambiguous_question(L) ==
    LET p == peek(L.reader)
        p2 == peek2(L.reader)
    IN  IF p = "?" /\ p2 = "=" THEN Plain(L, 2, "DoubleQuestionEqual")
        ELSE IF p = "?" THEN Plain(L, 1, "DoubleQuestion")
        ELSE Plain(L, 0, "Question")

\* Lexer::ambiguous_equal: the token that starts with =, the leading character consumed
ambiguous_equal(L) ==
    LET p == peek(L.reader)
        p2 == peek2(L.reader)
    IN  IF p = "=" THEN Plain(L, 1, "EqualEqual")
        ELSE Plain(L, 0, "Equal")

\* Lexer::ambiguous_dot: the token that starts with ., the leading character consumed
ambiguous_dot(L) ==
    LET p == peek(L.reader)
        p2 == peek2(L.reader)
    IN  IF p = "." /\ p2 = "." THEN Plain(L, 2, "Ellipses")
        ELSE Plain(L, 0, "Dot")

\* Lexer::ambiguous_slash: /, /= or a comment up to the end of the line
RECURSIVE skip_line(_)
skip_line(r) ==
    Bind(r, LAMBDA v :
        IF peek(v) # "\n" /\ peek(v) # None THEN skip_line(advance_head(v)) ELSE v)

ambiguous_slash(L) ==
    LET p == peek(L.reader)
    IN  IF p = "=" THEN Plain(L, 1, "DivEquals")
        ELSE IF p = "/"
        THEN Scan(skip_line(L.reader), L.mode_stack, "Ignore", NoLiteral, <<>>)
        ELSE Plain(L, 0, "Div")

\* Lexer::ambiguous_dollar: ${ opens an interpolation
ambiguous_dollar(L) ==
    IF peek(L.reader) = "{"
    THEN Scan(advance_head(L.reader), Append(L.mode_stack, "Interpolation"),
              "DollarBrace", NoLiteral, <<>>)
    ELSE Plain(L, 0, "StringPart")

\* while self.reader.peek().is_some_and(is_digit_or_sep) { self.reader.next(); }
RECURSIVE skip_digits(_)
skip_digits(r) ==
    Bind(r, LAMBDA v :
        IF peek(v) # None /\ is_digit_or_sep(peek(v)) THEN skip_digits(advance_head(v)) ELSE v)

\* Lexer::lex_number_literal
lex_number_literal(L) ==
    Bind(skip_digits(L.reader), LAMBDA r1 :
        LET is_float == peek(r1) = "." /\ peek2(r1) # None /\ is_digit_or_sep(peek2(r1))
        IN  Bind(IF is_float THEN skip_digits(advance_head(r1)) ELSE r1, LAMBDA r2 :
            Bind(remove_sep(Span_to_string(current_span(r2))), LAMBDA text :
                IF is_float
                THEN IF parses_f64(text)
                     THEN Scan(r2, L.mode_stack, "FloatLit",
                               [kind |-> "Float", val |-> text], <<>>)
                     ELSE fatal_unreachable(L)
                ELSE IF parses_u64(text)
                     THEN Scan(r2, L.mode_stack, "IntLit",
                               [kind |-> "Int", val |-> <<decimal_value(text)>>], <<>>)
                     ELSE Scan(r2, L.mode_stack, "IntLit",
                               [kind |-> "Int", val |-> <<0>>], <<"err_int_too_big">>))))

\* the scanning loop of lex_identifier
RECURSIVE skip_ident(_)
skip_ident(r) ==
    Bind(r, LAMBDA v :
        IF peek(v) # None /\ (is_ascii_alphanumeric(peek(v)) \/ peek(v) = "_")
        THEN skip_ident(advance_head(v)) ELSE v)

\* Lexer::lex_identifier
lex_identifier(L) ==
    LET r1 == skip_ident(L.reader)
        text == Span_to_string(current_span(r1))
        ty == keyword_get(text)
    IN  Scan(r1, L.mode_stack, IF ty # None THEN ty ELSE "Identifier", NoLiteral, <<>>)

\* the loop of lex_raw_string: the reader afterwards and whether the input ended first
RECURSIVE raw_string_loop(_)
raw_string_loop(r) ==
    Bind(r, LAMBDA v :
        IF peek(v) = None THEN [reader |-> v, unclosed |-> TRUE]
        ELSE IF peek(v) = "'" THEN [reader |-> advance_head(v), unclosed |-> FALSE]
        ELSE raw_string_loop(advance_head(v)))

\* Lexer::lex_raw_string
lex_raw_string(L) ==
    LET w == raw_string_loop(L.reader)
    IN  Scan(w.reader, L.mode_stack, "RawString",
             [kind |-> "String", val |-> Span_to_string(current_span(w.reader))],
             IF w.unclosed THEN <<"err_unclosed_delimiter">> ELSE <<>>)

\* the loop of lex_string_part: the reader and the literal afterwards
RECURSIVE string_part_loop(_, _)
string_part_loop(r, literal) ==
    Bind(r, LAMBDA v :
        LET p == peek(v)
            p2 == peek2(v)
        IN  IF p = None \/ p = "\"" THEN [reader |-> v, literal |-> literal]
            ELSE IF p = "\\" /\ p2 # None
            THEN string_part_loop(Adv(v, 2), Append(literal, p2))
            ELSE string_part_loop(advance_head(v), Append(literal, p)))

\* Lexer::lex_string_part
lex_string_part(L) ==
    LET text == Span_to_string(current_span(L.reader))
        w == string_part_loop(L.reader, <<Head(text)>>)
    IN  Scan(w.reader, L.mode_stack, "StringPart",
             [kind |-> "String", val |-> w.literal], <<>>)

\* the arms of normal_mode_next that push a mode: ( [ { and the opening quote
open_delimiter(L, mode, tt) ==
    Scan(L.reader, Append(L.mode_stack, mode), tt, NoLiteral, <<>>)

unmatched_delimiter_Pops(L) ==
    Scan(L.reader, SubSeq(L.mode_stack, 1, Len(L.mode_stack) - 1), "Ignore", NoLiteral,
         <<"err_unmatched_delimiter">>)

unmatched_delimiter_Silent(L) ==
    Scan(L.reader, L.mode_stack, "Ignore", NoLiteral, <<>>)

\* the arms of normal_mode_next for ) ] }: a closer met by the Normal-mode rules
unmatched_delimiter(L) ==
    Scan(L.reader, L.mode_stack, "Ignore", NoLiteral, <<"err_unmatched_delimiter">>)

\* the match of normal_mode_next on the character c just consumed
normal_scan(c, L) ==
    CASE c = "^" -> Plain(L, 0, "Caret")
      [] c = "(" -> open_delimiter(L, "ParenBlock", "LeftParen")
      [] c = ")" -> unmatched_delimiter(L)
      [] c = "[" -> open_delimiter(L, "BracketBlock", "LeftBracket")
      [] c = "]" -> unmatched_delimiter(L)
      [] c = "{" -> open_delimiter(L, "BraceBlock", "LeftBrace")
      [] c = "}" -> unmatched_delimiter(L)
      [] c = "," -> Plain(L, 0, "Comma")
      [] c = ";" -> Plain(L, 0, "Semicolon")
      [] c = "|" -> Plain(L, 0, "Pipe")
      [] c = "+" -> ambiguous_plus(L)
      [] c = "*" -> ambiguous_mul(L)
      [] c = "-" -> ambiguous_minus(L)
      [] c = "%" -> ambiguous_mod(L)
      [] c = "<" -> ambiguous_less(L)
      [] c = ">" -> ambiguous_greater(L)
      [] c = ":" -> ambiguous_colon(L)
      [] c = "!" -> ambiguous_bang(L)
      [] c = "?" -> ambiguous_question(L)
      [] c = "=" -> ambiguous_equal(L)
      [] c = "." -> ambiguous_dot(L)
      [] c = "/" -> ambiguous_slash(L)
      [] c \in {" ", "\n", "\r", "\t"} -> Plain(L, 0, "Ignore")
      [] c = "'" -> lex_raw_string(L)
      [] c = "\"" -> open_delimiter(L, "String", "DoubleQuote")
      [] is_ascii_digit(c) -> lex_number_literal(L)
      [] is_ascii_alphabetic(c) \/ c = "_" -> lex_identifier(L)
      [] OTHER -> Scan(L.reader, L.mode_stack, "Unknown", NoLiteral, <<"err_unexpected_character">>)

NoToken == [token_type |-> None, lexeme |-> [start |-> 0, length |-> 0], literal |-> NoLiteral]

\* a *_mode_next returning None: nothing consumed, nothing changed
ReturnNone(L) ==
    [some |-> FALSE, reader |-> L.reader, mode_stack |-> L.mode_stack, token |-> NoToken,
     errs |-> <<>>, panicked |-> FALSE]

\* Some(Token { token_type, lexeme: self.reader.advance_tail(), literal }),
\* unless the scan panicked
ReturnToken(scan) ==
    Bind(scan, LAMBDA s :
        IF s.panicked
        THEN [some |-> FALSE, reader |-> s.reader, mode_stack |-> s.mode_stack,
              token |-> NoToken, errs |-> s.errs, panicked |-> TRUE]
        ELSE [some |-> TRUE, reader |-> advance_tail(s.reader), mode_stack |-> s.mode_stack,
              token |-> [token_type |-> s.token_type, lexeme |-> current_span(s.reader),
                         literal |-> s.literal],
              errs |-> s.errs, panicked |-> FALSE])

\* Lexer::normal_mode_next
normal_mode_next(L) ==
    LET c == peek(L.reader)
    IN  IF c = None THEN ReturnNone(L)
        ELSE ReturnToken(normal_scan(c, [L EXCEPT !.reader = advance_head(L.reader)]))

\* SmallVec::pop
pop(st) == SubSeq(st, 1, Len(st) - 1)

\* what the four proxy modes do: the closer they intercept pops the mode, anything
\* else goes to normal_mode_next
proxy_mode_next(L, closer, tt) ==
    IF peek(L.reader) = closer
    THEN ReturnToken(Scan(advance_head(L.reader), pop(L.mode_stack), tt, NoLiteral, <<>>))
    ELSE normal_mode_next(L)

interpolation_mode_next_NoPop(L) ==
    IF peek(L.reader) = "}"
    THEN ReturnToken(Scan(advance_head(L.reader), L.mode_stack, "RightBrace", NoLiteral, <<>>))
    ELSE normal_mode_next(L)

\* Lexer::interpolation_mode_next
interpolation_mode_next(L) == proxy_mode_next(L, "}", "RightBrace")

paren_block_mode_next_AnyCloser(L) ==
    IF peek(L.reader) \in {")", "]", "}"}
    THEN ReturnToken(Scan(advance_head(L.reader), pop(L.mode_stack), "RightParen",
                          NoLiteral, <<>>))
    ELSE normal_mode_next(L)

\* Lexer::paren_block_mode_next
paren_block_mode_next(L) == proxy_mode_next(L, ")", "RightParen")

\* Lexer::bracket_block_mode_next
bracket_block_mode_next(L) == proxy_mode_next(L, "]", "RightBracket")

\* Lexer::brace_block_mode_next (it emits T::RightBracket)
brace_block_mode_next(L) == proxy_mode_next(L, "}", "RightBracket")

\* Lexer::string_mode_next
string_mode_next(L) ==
    LET c == peek(L.reader)
        L1 == [L EXCEPT !.reader = advance_head(L.reader)]
    IN  IF c = None THEN ReturnNone(L)
        ELSE IF c = "$" THEN ReturnToken(ambiguous_dollar(L1))
        ELSE IF c = "\"" THEN ReturnToken(Scan(L1.reader, pop(L1.mode_stack), "DoubleQuote",
                                               NoLiteral, <<>>))
        ELSE ReturnToken(lex_string_part(L1))

\* Lexer::new
Lexer_new == [reader |-> Reader_new, mode_stack |-> <<"Normal">>, panicked |-> FALSE]

\* self.mode_stack.last()
last(st) == IF st = <<>> THEN None ELSE st[Len(st)]

\* One call of <Lexer as Iterator>::next whose match on mode_stack.last() took the
\* arm of `mode`: the lexer, the tokens returned and the diagnostics afterwards.
\* A panicked process makes no further call.
Lexer_next(mode, res) ==
    /\ ~lx.panicked
    /\ last(lx.mode_stack) = mode
    /\ lx' = [reader |-> res.reader, mode_stack |-> res.mode_stack, panicked |-> res.panicked]
    /\ tokens' = IF res.some THEN Append(tokens, res.token) ELSE tokens
    /\ errors' = errors \o res.errs
    /\ done' = (~res.some /\ ~res.panicked)
    /\ UNCHANGED arena
    /\ UNCHANGED laVars
    /\ UNCHANGED prVars
    /\ UNCHANGED auxVars

\* Some(LM::Normal) => self.normal_mode_next()
NextNormal == Lexer_next("Normal", normal_mode_next(lx))

\* Some(LM::Interpolation) => self.interpolation_mode_next()
NextInterpolation == Lexer_next("Interpolation", interpolation_mode_next(lx))

\* Some(LM::String) => self.string_mode_next()
NextString == Lexer_next("String", string_mode_next(lx))

\* Some(LM::ParenBlock) => self.paren_block_mode_next()
NextParenBlock == Lexer_next("ParenBlock", paren_block_mode_next(lx))

\* Some(LM::BracketBlock) => self.bracket_block_mode_next()
NextBracketBlock == Lexer_next("BracketBlock", bracket_block_mode_next(lx))

\* Some(LM::BraceBlock) => self.brace_block_mode_next()
NextBraceBlock == Lexer_next("BraceBlock", brace_block_mode_next(lx))

\* <Lexer as Iterator>::next as a function of the lexer
Lexer_dispatch(L) ==
    CASE last(L.mode_stack) = "Normal" -> normal_mode_next(L)
      [] last(L.mode_stack) = "Interpolation" -> interpolation_mode_next(L)
      [] last(L.mode_stack) = "String" -> string_mode_next(L)
      [] last(L.mode_stack) = "ParenBlock" -> paren_block_mode_next(L)
      [] last(L.mode_stack) = "BracketBlock" -> bracket_block_mode_next(L)
      [] last(L.mode_stack) = "BraceBlock" -> brace_block_mode_next(L)
      [] OTHER -> ReturnNone(L)

\* The tokens a Lexer yields from L on, one next() after the other until it
\* returns None, and for each token the diagnostics its lexing reports.
RECURSIVE lex_all(_, _, _)
lex_all(L, toks, errs) ==
    Bind(Lexer_dispatch(L), LAMBDA res :
        IF ~res.some THEN [tokens |-> toks, errs |-> errs]
        ELSE lex_all([reader |-> res.reader, mode_stack |-> res.mode_stack,
                      panicked |-> FALSE],
                     Append(toks, res.token), Append(errs, res.errs)))

(***************************************************************************)
(* error_handler.rs: ErrorHandler                                          *)
(***************************************************************************)

\* ErrorHandler::new
ErrorHandler_new == [errors |-> <<>>, had_error |-> FALSE]

NoSpan == [some |-> FALSE, start |-> 0, length |-> 0]
SomeSpan(sp) == [some |-> TRUE, start |-> sp.start, length |-> sp.length]

\* a DragonError
DragonError(msg, span, expected, got) ==
    [msg |-> msg, span |-> span, expected |-> expected, got |-> got]

\* ErrorHandler::syntax_error
syntax_error(e, span, msg) ==
    [errors |-> Append(e.errors, DragonError(msg, SomeSpan(span), <<>>, None)),
     had_error |-> TRUE]

\* ErrorHandler::unexpected_char
unexpected_char(e, span, c) ==
    [errors |-> Append(e.errors, DragonError("unexpected character", SomeSpan(span), <<>>, c)),
     had_error |-> TRUE]

\* ErrorHandler::unexpected_token
unexpected_token(e, span, expected, got) ==
    [e EXCEPT !.errors = Append(@, DragonError("unexpected token", SomeSpan(span), expected, got))]

\* ErrorHandler::unexpected_end_of_input
unexpected_end_of_input(e) ==
    [e EXCEPT !.errors = Append(@, DragonError("unexpected end of input", NoSpan, <<>>, None))]

\* ErrorHandler::expect_expression: an expression was expected where the token
\* at span was found, or where the input ended
expect_expression(e, span) ==
    [errors |-> Append(e.errors,
                       DragonError(IF span.some THEN "expected expression"
                                   ELSE "unexpected end of input", span, <<>>, None)),
     had_error |-> TRUE]

\* ErrorHandler::int_parse_error: the integer literal at span does not decode
int_parse_error(e, span) ==
    [errors |-> Append(e.errors, DragonError("int parse error", span, <<>>, None)),
     had_error |-> TRUE]

(***************************************************************************)
(* parser.rs: Parser, parser/ast.rs: Expression                            *)
(*                                                                         *)
(* The Parser's cursor is a Lookahead over its Lexer: items holds the      *)
(* token types the Lexer yields, stream.tokens the tokens themselves, and  *)
(* a position of the cursor is the number of tokens its Lexer has yielded. *)
(* A parser state P is [la, eh, errors]: the cursor, the ErrorHandler and  *)
(* the diagnostics the Lexer has reported.                                 *)
(***************************************************************************)

\* the token types parser.rs names that TokenType does not define
TT_Star == "Mul"
TT_Slash == "Div"
TT_Percent == "Mod"
TT_Pow == "MulMul"

\* Expression::BE, Expression::UE, Expression::LE(LitExpression(Value::Int(i)))
BE(lhs, op, rhs) == [kind |-> "BE", op |-> op, lhs |-> lhs, rhs |-> rhs]
UE(op, rhs) == [kind |-> "UE", op |-> op, rhs |-> rhs]
LE(i) == [kind |-> "LE", value |-> i]

\* Option<Expression>::None
NoExp == [kind |-> "None"]

\* Parser::new
Parser_new == [la |-> lookahead, eh |-> ErrorHandler_new, errors |-> <<>>]

\* self.lx.peek(): the branch Lexer lexes one more token, reporting its
\* diagnostics as it does
lx_peek(P) ==
    [P EXCEPT !.la = Lookahead_peek(P.la),
              !.errors = @ \o (IF P.la.branch < Len(items)
                               THEN stream.errs[P.la.branch + 1] ELSE <<>>)]

\* self.lx.commit()
lx_commit(P) == [P EXCEPT !.la = Lookahead_commit(P.la)]

match_one_NoReset(P, tt) ==
    Bind(lx_peek(P), LAMBDA P1 :
        LET cur == IF P1.la.current # None THEN P1.la.branch ELSE 0
        IN  IF P1.la.current # None /\ P1.la.current = tt
            THEN [p |-> P1, some |-> TRUE, idx |-> cur]
            ELSE [p |-> P1, some |-> FALSE, idx |-> cur])

\* Parser::match_one: whether the next token of the branch has type tt; idx is
\* the index in the stream of the token peeked (of lx.current), 0 for none
match_one(P, tt) ==
    Bind(lx_peek(P), LAMBDA P1 :
        LET cur == IF P1.la.current # None THEN P1.la.branch ELSE 0
        IN  IF P1.la.current # None /\ P1.la.current = tt
            THEN [p |-> P1, some |-> TRUE, idx |-> cur]
            ELSE [p |-> [P1 EXCEPT !.la = Lookahead_reset(P1.la)], some |-> FALSE,
                  idx |-> cur])

\* Parser::match_one_of
RECURSIVE match_one_of(_, _)
match_one_of(P, tts) ==
    IF tts = <<>> THEN [p |-> P, some |-> FALSE, idx |-> 0]
    ELSE Bind(match_one(P, Head(tts)), LAMBDA m :
             IF m.some THEN m ELSE match_one_of(m.p, Tail(tts)))

\* Parser::parse_one
parse_one(P, tt) ==
    Bind(match_one(P, tt), LAMBDA m :
        IF m.some THEN [p |-> lx_commit(m.p), some |-> TRUE, idx |-> m.idx]
        ELSE IF m.p.la.current = None
        THEN [p |-> [m.p EXCEPT !.eh = unexpected_end_of_input(@)], some |-> FALSE, idx |-> 0]
        ELSE [p |-> [m.p EXCEPT !.eh = unexpected_token(@, stream.tokens[m.idx].lexeme, <<tt>>,
                                                         stream.tokens[m.idx].token_type)],
              some |-> FALSE, idx |-> 0])

\* str::parse::<i64>: whether the text parses (an optional sign, then digits
\* only; the literals of the model have far fewer than 19 digits)
parses_i64(s) ==
    LET d == IF s # <<>> /\ Head(s) \in {"+", "-"} THEN Tail(s) ELSE s
    IN  d # <<>> /\ \A i \in 1..Len(d) : is_ascii_digit(d[i])

\* the value str::parse::<i64> gives
i64_value(s) ==
    IF Head(s) = "-" THEN 0 - decimal_value(Tail(s))
    ELSE IF Head(s) = "+" THEN decimal_value(Tail(s))
    ELSE decimal_value(s)

\* Parser::match_int_literal
match_int_literal(P) ==
    Bind(match_one(P, "IntLit"), LAMBDA m :
        LET lexeme == stream.tokens[m.idx].lexeme
            text == Span_to_string(lexeme)
        IN  IF ~m.some THEN [p |-> m.p, ret |-> NoExp]
            ELSE IF parses_i64(text) THEN [p |-> m.p, ret |-> LE(i64_value(text))]
            ELSE [p |-> [m.p EXCEPT !.eh = int_parse_error(@, SomeSpan(lexeme))],
                  ret |-> LE(1)])

RECURSIVE parse_expression(_), parse_term(_), term_loop(_, _), parse_factor(_),
          factor_loop(_, _), parse_power(_), power_loop(_, _), parse_unary(_),
          parse_primary(_), parse_grouping(_)

\* Parser::parse_expression
parse_expression(P) == parse_term(P)

term_loop_RightFold(P, exp) ==
    Bind(match_one_of(P, <<"Plus", "Minus">>), LAMBDA m :
        IF ~m.some THEN [p |-> m.p, ret |-> exp]
        ELSE Bind(parse_term(lx_commit(m.p)), LAMBDA rhs :
                 LET op == IF items[m.idx] = "Plus" THEN "Add" ELSE "Sub"
                 IN  IF rhs.ret.kind = "None" THEN rhs
                     ELSE [p |-> rhs.p, ret |-> BE(exp, op, rhs.ret)]))

\* the while loop of parse_term, exp being the expression so far
term_loop(P, exp) ==
    Bind(match_one_of(P, <<"Plus", "Minus">>), LAMBDA m :
        IF ~m.some THEN [p |-> m.p, ret |-> exp]
        ELSE Bind(parse_factor(lx_commit(m.p)), LAMBDA rhs :
                 LET op == IF items[m.idx] = "Plus" THEN "Add" ELSE "Sub"
                 IN  IF rhs.ret.kind = "None" THEN rhs
                     ELSE term_loop(rhs.p, BE(exp, op, rhs.ret))))

\* Parser::parse_term
parse_term(P) ==
    Bind(parse_factor(P), LAMBDA f :
        IF f.ret.kind = "None" THEN f ELSE term_loop(f.p, f.ret))

\* the while loop of parse_factor
factor_loop(P, exp) ==
    Bind(match_one_of(P, <<TT_Star, TT_Slash, TT_Percent>>), LAMBDA m :
        IF ~m.some THEN [p |-> m.p, ret |-> exp]
        ELSE Bind(parse_power(lx_commit(m.p)), LAMBDA rhs :
                 LET op == IF items[m.idx] = TT_Percent THEN "Mod"
                           ELSE IF items[m.idx] = TT_Slash THEN "Div" ELSE "Mul"
                 IN  IF rhs.ret.kind = "None" THEN rhs
                     ELSE factor_loop(rhs.p, BE(exp, op, rhs.ret))))

\* Parser::parse_factor
parse_factor(P) ==
    Bind(parse_power(P), LAMBDA f :
        IF f.ret.kind = "None" THEN f ELSE factor_loop(f.p, f.ret))

\* the while loop of parse_power
power_loop(P, exp) ==
    Bind(match_one(P, TT_Pow), LAMBDA m :
        IF ~m.some THEN [p |-> m.p, ret |-> exp]
        ELSE Bind(parse_unary(lx_commit(m.p)), LAMBDA rhs :
                 IF rhs.ret.kind = "None" THEN rhs
                 ELSE power_loop(rhs.p, BE(exp, "Pow", rhs.ret))))

\* Parser::parse_power
parse_power(P) ==
    Bind(parse_unary(P), LAMBDA f :
        IF f.ret.kind = "None" THEN f ELSE power_loop(f.p, f.ret))

\* Parser::parse_unary
parse_unary(P) ==
    Bind(match_one(P, "Minus"), LAMBDA m :
        IF m.some
        THEN Bind(parse_unary(lx_commit(m.p)), LAMBDA rhs :
                 IF rhs.ret.kind = "None" THEN rhs
                 ELSE [p |-> rhs.p, ret |-> UE("Neg", rhs.ret)])
        ELSE parse_primary(m.p))

\* Parser::parse_primary
parse_primary(P) ==
    Bind(match_int_literal(P), LAMBDA e :
        IF e.ret.kind # "None" THEN [p |-> lx_commit(e.p), ret |-> e.ret]
        ELSE parse_grouping(e.p))

\* Parser::parse_grouping
parse_grouping(P) ==
    Bind(match_one(P, "LeftParen"), LAMBDA m :
        IF m.some
        THEN Bind(parse_expression(lx_commit(m.p)), LAMBDA e :
                 IF e.ret.kind = "None" THEN e
                 ELSE Bind(parse_one(e.p, "RightParen"), LAMBDA o :
                          IF ~o.some THEN [p |-> o.p, ret |-> NoExp]
                          ELSE [p |-> o.p, ret |-> e.ret]))
        ELSE [p |-> [m.p EXCEPT !.eh = expect_expression(@,
                         IF m.idx = 0 THEN NoSpan ELSE SomeSpan(stream.tokens[m.idx].lexeme))],
              ret |-> NoExp])

\* the Parser as it stands
PState == [la |-> la, eh |-> eh, errors |-> errors]

\* One call of a method of the Parser that left the parser state p: ret is
\* the expression it returned (NoExp for none), some whether it returned Some.
ParserCall(op, arg, p, ret, some) ==
    /\ la' = p.la
    /\ eh' = p.eh
    /\ errors' = p.errors
    /\ pr' = [op |-> op, arg |-> arg, calls |-> pr.calls + 1, entry |-> la,
              ret |-> ret, some |-> some,
              reported |-> Len(p.eh.errors) - Len(eh.errors)]
    /\ UNCHANGED <<items, stream, arena, lx, tokens, done>>
    /\ UNCHANGED <<laRet, laOps, laAnchor, consumed, pending>>
    /\ UNCHANGED auxVars

\* a call of a parse_* method that returns Option<Expression>
ParseCall(op, r) ==
    /\ pr.calls < MaxCalls
    /\ \E v \in {r} : ParserCall(op, <<>>, v.p, v.ret, v.ret.kind # "None")

\* a call of a method that returns Option<Token>
TokenCall(op, arg, m) ==
    /\ pr.calls < MaxCalls
    /\ \E v \in {m} : ParserCall(op, arg, v.p, NoExp, v.some)

DoParseExpression == ParseCall("parse_expression", parse_expression(PState))
DoParseTerm == ParseCall("parse_term", parse_term(PState))
DoParseFactor == ParseCall("parse_factor", parse_factor(PState))
DoParsePower == ParseCall("parse_power", parse_power(PState))
DoParseUnary == ParseCall("parse_unary", parse_unary(PState))
DoParsePrimary == ParseCall("parse_primary", parse_primary(PState))
DoParseGrouping == ParseCall("parse_grouping", parse_grouping(PState))

\* self.lx.next(): the main Lexer lexes one more token, reporting its
\* diagnostics as it does, and the branch is cloned from it
lx_next(P) ==
    [P EXCEPT !.la = Lookahead_next(P.la),
              !.errors = @ \o (IF P.la.main < Len(items)
                               THEN stream.errs[P.la.main + 1] ELSE <<>>)]

\* for _ in self.lx.by_ref() {}
RECURSIVE drop_loop(_)
drop_loop(P) ==
    Bind(lx_next(P), LAMBDA P1 :
        IF P1.la.current = None THEN P1 ELSE drop_loop(P1))

synchronize_DropAll(P) == drop_loop(lx_commit(P))

\* for t in self.lx.by_ref() { if t.token_type == TT::Semicolon { return; } }
RECURSIVE sync_loop(_)
sync_loop(P) ==
    Bind(lx_next(P), LAMBDA P1 :
        IF P1.la.current = None \/ P1.la.current = "Semicolon" THEN P1 ELSE sync_loop(P1))

\* Parser::synchronize
synchronize(P) == sync_loop(lx_commit(P))

DoSynchronize ==
    TokenCall("synchronize", <<>>, [p |-> synchronize(PState), some |-> FALSE])

\* the token types the calls of match_one, match_one_of and parse_one ask for
MatchTypes == {"IntLit", "Minus", "LeftParen", TT_Pow}
MatchTypeLists == {<<"Plus", "Minus">>, <<TT_Star, TT_Slash, TT_Percent>>}
ParseOneTypes == {"IntLit", "RightParen"}

DoMatchOne == \E tt \in MatchTypes : TokenCall("match_one", <<tt>>, match_one(PState, tt))
DoMatchOneOf ==
    \E tts \in MatchTypeLists : TokenCall("match_one_of", tts, match_one_of(PState, tts))
DoParseOne == \E tt \in ParseOneTypes : TokenCall("parse_one", <<tt>>, parse_one(PState, tt))

\* no call has been made on the store, a view or a reader
StoreIdle ==
    /\ alive = TRUE
    /\ views = <<>>
    /\ rd = Reader_new
    /\ yielded = <<>>
    /\ csr = [back |-> 0, front |-> 0]
    /\ call = [op |-> "new", arg |-> <<>>, ret |-> None, crashed |-> FALSE]

\* VecCursor::new(items)
VecCursor_new == [back |-> 0, front |-> 0, previous |-> None]

\* ExpressionEval::new
ExpressionEval_new == [stack |-> <<>>, crashed |-> FALSE, empty_pop |-> FALSE]

\* nothing is being walked
WalkIdle ==
    /\ ast = NoExp
    /\ visited = <<>>
    /\ ev = ExpressionEval_new
    /\ vc = VecCursor_new

AuxIdle == WalkIdle /\ StoreIdle

ParserIdle ==
    /\ stream = [tokens |-> <<>>, errs |-> <<>>]
    /\ eh = ErrorHandler_new
    /\ pr = [op |-> "new", arg |-> <<>>, calls |-> 0, entry |-> lookahead,
             ret |-> NoExp, some |-> FALSE, reported |-> 0]

LexerIdle ==
    /\ arena = <<>>
    /\ lx = Lexer_new
    /\ tokens = <<>>
    /\ errors = <<>>
    /\ done = FALSE

InitLookahead ==
    /\ items \in SeqsUpTo(ItemValues, MaxItems)
    /\ la = lookahead
    /\ laRet = None
    /\ laOps = <<"new", "new", "new">>
    /\ laAnchor = iter_next(0).item
    /\ consumed = <<>>
    /\ pending = <<>>
    /\ LexerIdle
    /\ ParserIdle
    /\ AuxIdle

NextLookahead == DoPeek \/ DoReset \/ DoCommit \/ DoNext

SpecLookahead == InitLookahead /\ [][NextLookahead]_vars

(***************************************************************************)
(* The Lexer over one interned text.  The texts: every text of up to       *)
(* MaxLenAny characters over a character of each kind the lexer tells      *)
(* apart, every text of up to MaxLenDelim characters over the delimiters   *)
(* and string characters, every text of up to MaxLenWord characters over   *)
(* the characters of numbers and words, every text of up to MaxLenOp       *)
(* characters over the characters of the operators.                        *)
(***************************************************************************)
Chars ==
    {"^", "(", ")", "[", "]", "{", "}", ",", ";", "|", "+", "*", "-", "%", "<", ">",
     ":", "!", "?", "=", ".", "/", " ", "\n", "\r", "\t", "'", "\"", "1", "a", "_",
     "$", "\\", "#"}
DelimChars == {"(", ")", "{", "}", "\"", "$", "\\", "a"}
WordChars == {"1", ".", "_", "o", "r", " "}
OpChars == {"+", "*", "-", "/", "%", "<", ">", ":", "!", "?", "=", "."}

Texts ==
    SeqsUpTo(Chars, MaxLenAny) \cup SeqsUpTo(DelimChars, MaxLenDelim)
        \cup SeqsUpTo(WordChars, MaxLenWord) \cup SeqsUpTo(OpChars, MaxLenOp)

LookaheadIdle ==
    /\ items = <<>>
    /\ la = lookahead
    /\ laRet = None
    /\ laOps = <<"new", "new", "new">>
    /\ laAnchor = None
    /\ consumed = <<>>
    /\ pending = <<>>

\* intern(text) into the empty arena, then Lexer::new(Reader::new())
InitLexer ==
    /\ arena \in Texts
    /\ lx = Lexer_new
    /\ tokens = <<>>
    /\ errors = <<>>
    /\ done = FALSE
    /\ LookaheadIdle
    /\ ParserIdle
    /\ AuxIdle

NextLexer ==
    \/ NextNormal
    \/ NextInterpolation
    \/ NextString
    \/ NextParenBlock
    \/ NextBracketBlock
    \/ NextBraceBlock

SpecLexer == InitLexer /\ [][NextLexer]_vars

(***************************************************************************)
(* The Parser over the Lexer of one interned text.  The texts are made of  *)
(* units, each unit the text of one token: every chain of integer literals *)
(* joined by up to MaxChainOps binary operators, every text of up to       *)
(* MaxUnitsAll units over the literals, the operators and ( ), every text  *)
(* of up to MaxUnitsGroup units over a literal, - and ( ), every text of   *)
(* up to MaxUnitsSync units over a literal, + and ;, and the chains        *)
(* and some groupings written with spaces.  None holds a float literal, on *)
(* which the Lexer panics.                                                 *)
(***************************************************************************)
BinOpUnits == {<<"+">>, <<"-">>, <<"*">>, <<"/">>, <<"%">>, <<"*", "*">>}
AllUnits == BinOpUnits \cup {<<"2">>, <<"3">>, <<"(">>, <<")">>}
GroupUnits == {<<"2">>, <<"-">>, <<"(">>, <<")">>}
SyncUnits == {<<"2">>, <<"+">>, <<";">>}

RECURSIVE Flatten(_)
Flatten(us) == IF us = <<>> THEN <<>> ELSE Head(us) \o Flatten(Tail(us))

\* the chains literal (operator literal)* with k operators
RECURSIVE Chains(_)
Chains(k) ==
    IF k = 0 THEN {<<"2">>}
    ELSE {c \o o \o <<"2">> : c \in Chains(k - 1), o \in BinOpUnits}

\* the chains with a space on either side of every operator
RECURSIVE SpacedChains(_)
SpacedChains(k) ==
    IF k = 0 THEN {<<"2">>}
    ELSE {c \o <<" ">> \o o \o <<" ">> \o <<"2">> : c \in SpacedChains(k - 1), o \in BinOpUnits}

\* groupings written with spaces
SpacedGroups ==
    {<<"(", "2", " ", "+", " ", ")">>, <<"(", "2", " ", ")">>, <<"(", " ", "2", ")">>,
     <<"(", "2", " ", "+", " ", "2", ")">>, <<" ", "2">>, <<"2", " ">>}

ParserTexts ==
    UNION {Chains(k) \cup SpacedChains(k) : k \in 0..MaxChainOps}
        \cup SpacedGroups
        \cup {Flatten(us) : us \in SeqsUpTo(AllUnits, MaxUnitsAll)}
        \cup {Flatten(us) : us \in SeqsUpTo(GroupUnits, MaxUnitsGroup)}
        \cup {Flatten(us) : us \in SeqsUpTo(SyncUnits, MaxUnitsSync)}

\* intern(text) into the empty arena, then Parser::new(Lexer::new(Reader::new()), eh)
InitParser ==
    /\ arena \in ParserTexts
    /\ lx = Lexer_new
    /\ tokens = <<>>
    /\ errors = <<>>
    /\ done = FALSE
    /\ stream = lex_all(Lexer_new, <<>>, <<>>)
    /\ items = [i \in 1..Len(stream.tokens) |-> stream.tokens[i].token_type]
    /\ la = lookahead
    /\ laRet = None
    /\ laOps = <<"new", "new", "new">>
    /\ laAnchor = None
    /\ consumed = <<>>
    /\ pending = <<>>
    /\ eh = ErrorHandler_new
    /\ pr = [op |-> "new", arg |-> <<>>, calls |-> 0, entry |-> lookahead,
             ret |-> NoExp, some |-> FALSE, reported |-> 0]
    /\ AuxIdle

NextParser ==
    \/ DoParseExpression
    \/ DoParseTerm
    \/ DoParseFactor
    \/ DoParsePower
    \/ DoParseUnary
    \/ DoParsePrimary
    \/ DoParseGrouping
    \/ DoSynchronize
    \/ DoMatchOne
    \/ DoMatchOneOf
    \/ DoParseOne

SpecParser == InitParser /\ [][NextParser]_vars

(***************************************************************************)
(* parser/ast.rs: Expression::walk over a Visitor.  A callback made on the *)
(* Visitor is recorded as [cb, path]: the method called and the node it is *)
(* called for, a node being named by the path to it from the root.         *)
(***************************************************************************)
MaxDepth == 2

Callback(cb, path) == [cb |-> cb, path |-> path]

RECURSIVE Expression_walk(_, _), BinExpression_walk(_, _), UnExpression_walk(_, _)

BinExpression_walk_OperatorFirst(be, path) ==
    <<Callback("visit_bin_operator", path)>>
        \o Expression_walk(be.rhs, Append(path, "rhs"))
        \o Expression_walk(be.lhs, Append(path, "lhs"))
        \o <<Callback("visit_bin_expression", path)>>

\* BinExpression::walk (BinOperator::walk is the call of visit_bin_operator)
BinExpression_walk(be, path) ==
    Expression_walk(be.rhs, Append(path, "rhs"))
        \o Expression_walk(be.lhs, Append(path, "lhs"))
        \o <<Callback("visit_bin_operator", path)>>
        \o <<Callback("visit_bin_expression", path)>>

\* UnExpression::walk (UnOperator::walk is the call of visit_un_operator)
UnExpression_walk(ue, path) ==
    Expression_walk(ue.rhs, Append(path, "rhs"))
        \o <<Callback("visit_un_operator", path)>>
        \o <<Callback("visit_un_expression", path)>>

\* LitExpression::walk
LitExpression_walk(le, path) == <<Callback("visit_lit_expression", path)>>

\* Expression::walk: the callbacks it makes, in order
Expression_walk(e, path) ==
    (CASE e.kind = "BE" -> BinExpression_walk(e, path)
       [] e.kind = "UE" -> UnExpression_walk(e, path)
       [] e.kind = "LE" -> LitExpression_walk(e, path))
        \o <<Callback("visit_expression", path)>>

\* the expressions of depth up to d over two literals, two binary operators
\* and the negation
RECURSIVE Expressions(_)
Expressions(d) ==
    IF d = 0 THEN {LE(1), LE(2)}
    ELSE LET sub == Expressions(d - 1)
         IN  sub \cup {BE(l, o, r) : l \in sub, o \in {"Add", "Pow"}, r \in sub}
                 \cup {UE("Neg", r) : r \in sub}

InitWalk ==
    /\ ast \in Expressions(MaxDepth)
    /\ visited = <<>>
    /\ ev = ExpressionEval_new
    /\ vc = VecCursor_new
    /\ LookaheadIdle
    /\ LexerIdle
    /\ ParserIdle
    /\ StoreIdle

\* a call of walk on the expression with a recording Visitor
DoWalk ==
    /\ visited = <<>>
    /\ visited' = Expression_walk(ast, <<>>)
    /\ UNCHANGED <<ast, ev, vc>>
    /\ UNCHANGED <<laVars, lxVars, prVars, stVars>>

NextWalk == DoWalk

SpecWalk == InitWalk /\ [][NextWalk]_vars

(***************************************************************************)
(* eval.rs, values.rs: the ExpressionEval visitor, a stack of Values that  *)
(* Expression::walk drives, one callback at a step.  A Value is Int(i64);   *)
(* an operation of Value yields the set of outcomes the build can give:    *)
(* a value, or a panic.                                                    *)
(***************************************************************************)

Value_Int(i) == [ok |-> TRUE, value |-> i]
ValuePanicked == [ok |-> FALSE]

Abs(i) == IF i < 0 THEN -i ELSE i

\* x / y and x % y of i64: the quotient is truncated towards zero
TruncDiv(x, y) ==
    IF (x < 0) = (y < 0) THEN Abs(x) \div Abs(y) ELSE -(Abs(x) \div Abs(y))
TruncRem(x, y) == x - y * TruncDiv(x, y)

RECURSIVE IntPow(_, _)
IntPow(x, n) == IF n = 0 THEN 1 ELSE x * IntPow(x, n - 1)

\* Value::neg
Value_neg(x) == {Value_Int(-x)}

\* Value::pow: x.pow(y as u32).  A negative y is cast to 2^32 + y, a power
\* that only 0, 1 and -1 have within i64; an overflow panics under overflow
\* checks and wraps without them, to 0 for an even x (the wrapped power of
\* another odd x is outside TLC's integers, and outside the expressions
\* evaluated here)
Value_pow(x, y) ==
    IF y >= 0 THEN {Value_Int(IntPow(x, y))}
    ELSE CASE x \in {0, 1} -> {Value_Int(x)}
           [] x = -1 -> {Value_Int(IF y % 2 = 0 THEN 1 ELSE -1)}
           [] x % 2 = 0 -> {ValuePanicked, Value_Int(0)}
           [] OTHER -> {ValuePanicked}

\* Value::mul, Value::add, Value::sub
Value_mul(x, y) == {Value_Int(x * y)}
Value_add(x, y) == {Value_Int(x + y)}
Value_sub(x, y) == {Value_Int(x - y)}

\* Value::div, Value::rem: todo!("handle runtime errors") when y is 0
Value_div(x, y) == IF y = 0 THEN {ValuePanicked} ELSE {Value_Int(TruncDiv(x, y))}
Value_rem(x, y) == IF y = 0 THEN {ValuePanicked} ELSE {Value_Int(TruncRem(x, y))}

\* x.op(y) for the operator bo
Value_bin(bo, x, y) ==
    CASE bo = "Pow" -> Value_pow(x, y)
      [] bo = "Mul" -> Value_mul(x, y)
      [] bo = "Div" -> Value_div(x, y)
      [] bo = "Mod" -> Value_rem(x, y)
      [] bo = "Add" -> Value_add(x, y)
      [] bo = "Sub" -> Value_sub(x, y)

\* self.0.pop().unwrap() on an empty stack
EmptyPop == [stack |-> <<>>, crashed |-> TRUE, empty_pop |-> TRUE]

\* the visitor after the outcome o of an operation, rest being the stack
\* below its operands
AfterOutcome(e, rest, o) ==
    IF o.ok THEN [e EXCEPT !.stack = Append(rest, o.value)]
    ELSE [e EXCEPT !.stack = rest, !.crashed = TRUE]

visit_bin_operator_Swapped(e, bo) ==
    LET n == Len(e.stack)
    IN  IF n < 2 THEN {EmptyPop}
        ELSE {AfterOutcome(e, SubSeq(e.stack, 1, n - 2), o) :
                 o \in Value_bin(bo, e.stack[n - 1], e.stack[n])}

\* ExpressionEval::visit_bin_operator: x is popped first, then y, and
\* x.op(y) is pushed
visit_bin_operator(e, bo) ==
    LET n == Len(e.stack)
    IN  IF n < 2 THEN {EmptyPop}
        ELSE {AfterOutcome(e, SubSeq(e.stack, 1, n - 2), o) :
                 o \in Value_bin(bo, e.stack[n], e.stack[n - 1])}

\* ExpressionEval::visit_un_operator
visit_un_operator(e, uo) ==
    LET n == Len(e.stack)
    IN  IF n < 1 THEN {EmptyPop}
        ELSE {AfterOutcome(e, SubSeq(e.stack, 1, n - 1), o) :
                 o \in Value_neg(e.stack[n])}

\* ExpressionEval::visit_lit_expression
visit_lit_expression(e, le) == [e EXCEPT !.stack = Append(@, le.value)]

\* the node of e at the end of path
RECURSIVE Subtree(_, _)
Subtree(e, path) ==
    IF path = <<>> THEN e
    ELSE Subtree(IF Head(path) = "lhs" THEN e.lhs ELSE e.rhs, Tail(path))

\* the expressions evaluated: of depth up to d over the literals 0 and 2 and
\* every operator
RECURSIVE EvalExpressions(_)
EvalExpressions(d) ==
    IF d = 0 THEN {LE(0), LE(2)}
    ELSE LET sub == EvalExpressions(d - 1)
         IN  sub \cup {BE(l, o, r) : l \in sub,
                          o \in {"Pow", "Mul", "Div", "Mod", "Add", "Sub"},
                          r \in sub}
                 \cup {UE("Neg", r) : r \in sub}

InitEval ==
    /\ ast \in EvalExpressions(MaxDepth)
    /\ visited = <<>>
    /\ ev = ExpressionEval_new
    /\ vc = VecCursor_new
    /\ LookaheadIdle
    /\ LexerIdle
    /\ ParserIdle
    /\ StoreIdle

\* the callback walk makes next, none once the walk is over or has panicked
NextCallback ==
    LET all == Expression_walk(ast, <<>>)
    IN  IF ~ev.crashed /\ Len(visited) < Len(all)
        THEN {all[Len(visited) + 1]} ELSE {}

EvalFrame(c) ==
    /\ visited' = Append(visited, c)
    /\ UNCHANGED <<ast, vc>>
    /\ UNCHANGED <<laVars, lxVars, prVars, stVars>>

DoVisitLitExpression ==
    \E c \in NextCallback :
        /\ c.cb = "visit_lit_expression"
        /\ ev' = visit_lit_expression(ev, Subtree(ast, c.path))
        /\ EvalFrame(c)

DoVisitBinOperator ==
    \E c \in NextCallback :
        /\ c.cb = "visit_bin_operator"
        /\ ev' \in visit_bin_operator(ev, Subtree(ast, c.path).op)
        /\ EvalFrame(c)

DoVisitUnOperator ==
    \E c \in NextCallback :
        /\ c.cb = "visit_un_operator"
        /\ ev' \in visit_un_operator(ev, Subtree(ast, c.path).op)
        /\ EvalFrame(c)

\* visit_expression, visit_bin_expression, visit_un_expression do nothing
DoVisitNode ==
    \E c \in NextCallback :
        /\ c.cb \in {"visit_expression", "visit_bin_expression", "visit_un_expression"}
        /\ ev' = ev
        /\ EvalFrame(c)

NextEval ==
    \/ DoVisitLitExpression
    \/ DoVisitBinOperator
    \/ DoVisitUnOperator
    \/ DoVisitNode

SpecEval == InitEval /\ [][NextEval]_vars

(***************************************************************************)
(* arena.rs, source/: the store of source text, its views and its readers. *)
(* The arena holds the characters of the store, of STRING_ARENA as of a    *)
(* SourceArena or a Source; alive tells whether the owner of the latter    *)
(* two is still there.  A view is [start, length].                         *)
(***************************************************************************)
MaxInterns == 2
MaxTextLen == 2

\* a character of one byte and a character of two bytes in UTF-8
StoreChars == {"a", "U+00E9"}

\* char::len_utf8
len_utf8(c) == IF c = "U+00E9" THEN 2 ELSE 1

\* String::len: the length of the text in bytes
RECURSIVE str_len(_)
str_len(text) == IF text = <<>> THEN 0 ELSE len_utf8(Head(text)) + str_len(Tail(text))

\* the texts interned
StoreTexts == SeqsUpTo(StoreChars, MaxTextLen)

\* intern: the Span it returns (the arena afterwards is arena \o text)
intern(text) == [start |-> Len(arena), length |-> str_len(text)]

\* Reader::from_span
Reader_from_span(sp) ==
    [start |-> 0, length |-> 0,
     boundary |-> [kind |-> "Relative", start |-> sp.start, length |-> sp.length]]

\* source/reader.rs Reader::inner_len: self.source.upgrade()?.src.len()
\* (an Option as the set of its values)
inner_len == IF alive THEN {Len(arena)} ELSE {}

\* source/reader.rs Reader::exhausted
exhausted(c) == \A len \in inner_len : c.front >= len

\* source/reader.rs Reader::get_from_inner
get_from_inner(i) ==
    IF ~alive THEN None ELSE IF i < Len(arena) THEN arena[i + 1] ELSE None

\* Cursor for Reader::peek_n
Cursor_peek_n(c, i) == get_from_inner(c.front + i)

Cursor_advance_Unchecked(c) ==
    [reader |-> [c EXCEPT !.front = @ + 1], ret |-> get_from_inner(c.front)]

\* Cursor for Reader::advance: the reader afterwards and what is returned
Cursor_advance(c) ==
    IF exhausted(c) THEN [reader |-> c, ret |-> None]
    ELSE [reader |-> [c EXCEPT !.front = @ + 1], ret |-> get_from_inner(c.front)]

\* Span::end, SourceView::end
Span_end(sp) == sp.start + sp.length

\* the outcomes of an operation that asserts a precondition: a panic, or a view
Panicked == [ok |-> FALSE]
Returned(sp) == [ok |-> TRUE, span |-> sp]

\* Add for Span: the outcomes of a + b
Span_add(a, b) ==
    IF ~(a.start <= b.start /\ Span_end(a) <= Span_end(b)) THEN {Panicked}
    ELSE {Returned([start |-> a.start, length |-> Span_end(b) - a.start])}

\* Add for SourceView: the outcomes of a + b.  new_len = rhs.len() - new_start
\* is a subtraction of usize: below zero it panics where overflow is checked
\* and wraps where it is not; a negative length n stands for 2^64 + n.
SourceView_add(a, b) ==
    IF ~(a.start <= b.start /\ Span_end(a) <= Span_end(b)) THEN {Panicked}
    ELSE LET new_start == a.start
             new_len == b.length - new_start
         IN  IF new_len < 0
             THEN {Panicked, Returned([start |-> new_start, length |-> new_len])}
             ELSE {Returned([start |-> new_start, length |-> new_len])}

\* the outcome of a rendering
Rendered(text) == [ok |-> TRUE, text |-> text]

\* SourceView::into_string: self.arena.upgrade().unwrap() panics when the
\* owner of the store is gone
SourceView_into_string(v) ==
    IF alive THEN Rendered(Span_into_string(v)) ELSE Panicked

\* a call on the store, a view or a reader, which returns
StoreCall(op, arg, ret) ==
    call' = [op |-> op, arg |-> arg, ret |-> ret, crashed |-> FALSE]

\* a call with the outcomes Panicked and Returned(..), Rendered(..)
StoreTry(op, arg, ret) ==
    call' = [op |-> op, arg |-> arg, ret |-> ret, crashed |-> ~ret.ok]

\* a panic ends the program: crash_and_burn, unwrap, todo!, an index out of range
Running == ~call.crashed

\* intern(text)
DoIntern ==
    \E text \in StoreTexts :
        /\ Running
        /\ Len(views) < MaxInterns
        /\ arena' = arena \o text
        /\ views' = Append(views, [span |-> intern(text), text |-> text])
        /\ StoreCall("intern", text, Returned(intern(text)))
        /\ UNCHANGED <<alive, rd, yielded, csr>>
        /\ UNCHANGED <<lx, tokens, errors, done>>
        /\ UNCHANGED <<laVars, prVars, wkVars>>

\* SourceArena::intern(text) through an owner of the store: the text is
\* appended and then the view is built with source_id: todo!(), which panics
DoSourceArenaIntern ==
    \E text \in StoreTexts :
        /\ Running
        /\ alive
        /\ arena' = arena \o text
        /\ StoreTry("SourceArena::intern", text, Panicked)
        /\ UNCHANGED <<alive, views, rd, yielded, csr>>
        /\ UNCHANGED <<lx, tokens, errors, done>>
        /\ UNCHANGED <<laVars, prVars, wkVars>>

\* the frame of a call that leaves the store as it is
StoreFrame ==
    /\ UNCHANGED <<arena, views>>
    /\ UNCHANGED <<lx, tokens, errors, done>>
    /\ UNCHANGED <<laVars, prVars, wkVars>>

\* Reader::new()
DoReaderNew ==
    /\ Running
    /\ rd' = Reader_new
    /\ yielded' = <<>>
    /\ StoreCall("Reader::new", <<>>, None)
    /\ UNCHANGED <<alive, csr>>
    /\ StoreFrame

\* Reader::from_span(v) for a view v that intern returned
DoReaderFromSpan ==
    \E i \in 1..Len(views) :
        /\ Running
        /\ rd' = Reader_from_span(views[i].span)
        /\ yielded' = <<>>
        /\ StoreCall("Reader::from_span", views[i].span, None)
        /\ UNCHANGED <<alive, csr>>
        /\ StoreFrame

\* Reader::peek()
DoReaderPeek ==
    /\ Running
    /\ call' = [op |-> "Reader::peek", arg |-> <<>>, ret |-> peek(rd),
                crashed |-> peek(rd) = Panic]
    /\ UNCHANGED <<alive, rd, yielded, csr>>
    /\ StoreFrame

\* Reader::advance_head(), Reader::next()
DoReaderAdvance ==
    /\ Running
    /\ rd' = advance_head(rd)
    /\ yielded' = IF peek(rd) \in {None, Panic} THEN yielded ELSE Append(yielded, peek(rd))
    /\ call' = [op |-> "Reader::advance_head", arg |-> <<>>, ret |-> peek(rd),
                crashed |-> peek(rd) = Panic]
    /\ UNCHANGED <<alive, csr>>
    /\ StoreFrame

\* Reader::advance_tail()
DoReaderAdvanceTail ==
    /\ Running
    /\ rd' = advance_tail(rd)
    /\ StoreCall("Reader::advance_tail", <<>>, current_span(rd))
    /\ UNCHANGED <<alive, yielded, csr>>
    /\ StoreFrame

\* Cursor::front(), Cursor::peek_n(i) on a Reader of source/reader.rs
DoCursorPeek ==
    \E i \in 0..1 :
        /\ Running
        /\ StoreCall("Cursor::peek_n", <<i>>, Cursor_peek_n(csr, i))
        /\ UNCHANGED <<alive, rd, yielded, csr>>
        /\ StoreFrame

\* Cursor::advance() on a Reader of source/reader.rs
DoCursorAdvance ==
    \E r \in {Cursor_advance(csr)} :
        /\ Running
        /\ csr' = r.reader
        /\ StoreCall("Cursor::advance", <<>>, r.ret)
        /\ UNCHANGED <<alive, rd, yielded>>
        /\ StoreFrame

\* a + b for two views that intern returned
DoSpanAdd ==
    \E i \in 1..Len(views), j \in 1..Len(views) :
        \E ret \in Span_add(views[i].span, views[j].span) :
            /\ Running
            /\ StoreTry("Span::add", <<views[i].span, views[j].span>>, ret)
            /\ UNCHANGED <<alive, rd, yielded, csr>>
            /\ StoreFrame

\* a + b for two views of a SourceArena
DoSourceViewAdd ==
    \E i \in 1..Len(views), j \in 1..Len(views) :
        \E ret \in SourceView_add(views[i].span, views[j].span) :
            /\ Running
            /\ StoreTry("SourceView::add", <<views[i].span, views[j].span>>, ret)
            /\ UNCHANGED <<alive, rd, yielded, csr>>
            /\ StoreFrame

\* Span::into_string on a view that intern returned
DoSpanIntoString ==
    \E i \in 1..Len(views) :
        /\ Running
        /\ StoreCall("Span::into_string", views[i].span,
                     Rendered(Span_into_string(views[i].span)))
        /\ UNCHANGED <<alive, rd, yielded, csr>>
        /\ StoreFrame

\* SourceView::into_string on a view of a SourceArena
DoSourceViewIntoString ==
    \E i \in 1..Len(views) :
        /\ Running
        /\ StoreTry("SourceView::into_string", views[i].span,
                     SourceView_into_string(views[i].span))
        /\ UNCHANGED <<alive, rd, yielded, csr>>
        /\ StoreFrame

\* the last owner of the store is dropped
DoDrop ==
    /\ Running
    /\ alive
    /\ alive' = FALSE
    /\ StoreCall("drop", <<>>, None)
    /\ UNCHANGED <<rd, yielded, csr>>
    /\ StoreFrame

InitStore ==
    /\ arena = <<>>
    /\ lx = Lexer_new
    /\ tokens = <<>>
    /\ errors = <<>>
    /\ done = FALSE
    /\ StoreIdle
    /\ LookaheadIdle
    /\ ParserIdle
    /\ WalkIdle

NextStore ==
    \/ DoIntern
    \/ DoSourceArenaIntern
    \/ DoSpanIntoString
    \/ DoSourceViewIntoString
    \/ DoReaderNew
    \/ DoReaderFromSpan
    \/ DoReaderPeek
    \/ DoReaderAdvance
    \/ DoReaderAdvanceTail
    \/ DoCursorPeek
    \/ DoCursorAdvance
    \/ DoSpanAdd
    \/ DoSourceViewAdd
    \/ DoDrop

SpecStore == InitStore /\ [][NextStore]_vars

(***************************************************************************)
(* lookahead.rs: the Cursor trait, as its two implementations have it: the *)
(* VecCursor of the tests, over items, and the Reader of source/reader.rs, *)
(* over the arena.  pending and yielded hold what each has advanced over   *)
(* since its last consume() or reset().                                    *)
(***************************************************************************)
MaxVecLen == 2
MaxOverrun == 1

\* Option<S>: no span, or the span
NoneSpan == [some |-> FALSE]
SomeOf(sp) == [some |-> TRUE, span |-> sp]

\* self.v.get(i).copied()
Vec_get(i) == IF i < Len(items) THEN items[i + 1] ELSE None

\* Cursor for VecCursor::advance: front moves on whether or not there is an item
VecCursor_advance(c) ==
    [cursor |-> [c EXCEPT !.front = @ + 1, !.previous = Vec_get(c.front)],
     ret |-> Vec_get(c.front)]

\* Cursor for VecCursor::consume
VecCursor_consume(c) ==
    IF c.back >= Len(items) \/ c.front >= Len(items)
    THEN [cursor |-> c, ret |-> NoneSpan]
    ELSE [cursor |-> [c EXCEPT !.back = c.front],
          ret |-> SomeOf(SubSeq(items, c.back + 1, c.front))]

\* Cursor for VecCursor::reset
VecCursor_reset(c) == [c EXCEPT !.front = c.back]

\* Cursor for VecCursor::window_len
VecCursor_window_len(c) == c.front - c.back

\* SourceString{source, pos: back..front}
SourceString(back, front) == [start |-> back, end |-> front]

\* Cursor for Reader::consume: back moves to front, and nothing is returned
\* once the reader is exhausted
Cursor_consume(c) ==
    LET after == [c EXCEPT !.back = c.front]
    IN  [reader |-> after,
         ret |-> IF exhausted(after) THEN NoneSpan
                 ELSE SomeOf(SourceString(c.back, c.front))]

\* Cursor for Reader::reset
Cursor_reset(c) == [c EXCEPT !.front = c.back]

\* Cursor for Reader::window_len
Cursor_window_len(c) == c.front - c.back

CursorTexts == SeqsUpTo({"a", "b"}, MaxVecLen)

InitCursor ==
    /\ items \in SeqsUpTo(ItemValues, MaxVecLen)
    /\ la = lookahead
    /\ laRet = None
    /\ laOps = <<"new", "new", "new">>
    /\ laAnchor = None
    /\ consumed = <<>>
    /\ pending = <<>>
    /\ arena \in CursorTexts
    /\ lx = Lexer_new
    /\ tokens = <<>>
    /\ errors = <<>>
    /\ done = FALSE
    /\ ParserIdle
    /\ AuxIdle

\* the frame of a call on the VecCursor
VecFrame ==
    /\ UNCHANGED <<items, la, laRet, laOps, laAnchor, consumed>>
    /\ UNCHANGED <<lxVars, prVars>>
    /\ UNCHANGED <<ast, visited, ev, alive, views, rd, yielded, csr>>

\* the frame of a call on the Reader of source/reader.rs
CursorFrame ==
    /\ UNCHANGED <<laVars, lxVars, prVars>>
    /\ UNCHANGED <<wkVars, alive, views, rd>>

DoVecAdvance ==
    \E r \in {VecCursor_advance(vc)} :
        /\ vc.front < Len(items) + MaxOverrun
        /\ vc' = r.cursor
        /\ pending' = IF r.ret = None THEN pending ELSE Append(pending, r.ret)
        /\ StoreCall("VecCursor::advance", <<>>, r.ret)
        /\ VecFrame

DoVecConsume ==
    \E r \in {VecCursor_consume(vc)} :
        /\ vc' = r.cursor
        /\ pending' = <<>>
        /\ StoreCall("VecCursor::consume", <<>>, r.ret)
        /\ VecFrame

DoVecReset ==
    /\ vc' = VecCursor_reset(vc)
    /\ pending' = <<>>
    /\ StoreCall("VecCursor::reset", <<>>, None)
    /\ VecFrame

DoCursorAdvanceOver ==
    \E r \in {Cursor_advance(csr)} :
        /\ csr' = r.reader
        /\ yielded' = IF r.ret = None THEN yielded ELSE Append(yielded, r.ret)
        /\ StoreCall("Cursor::advance", <<>>, r.ret)
        /\ CursorFrame

DoCursorConsume ==
    \E r \in {Cursor_consume(csr)} :
        /\ csr' = r.reader
        /\ yielded' = <<>>
        /\ StoreCall("Cursor::consume", <<>>, r.ret)
        /\ CursorFrame

DoCursorReset ==
    /\ csr' = Cursor_reset(csr)
    /\ yielded' = <<>>
    /\ StoreCall("Cursor::reset", <<>>, None)
    /\ CursorFrame

NextCursor ==
    \/ DoVecAdvance
    \/ DoVecConsume
    \/ DoVecReset
    \/ DoCursorAdvanceOver
    \/ DoCursorConsume
    \/ DoCursorReset

SpecCursor == InitCursor /\ [][NextCursor]_vars

(***************************************************************************)
(* error_handler.rs: an ErrorHandler that receives up to MaxReports        *)
(* reports, in any order.                                                  *)
(***************************************************************************)
MaxReports == 3

ReportSpans == {[start |-> 0, length |-> 1], [start |-> 1, length |-> 2]}

\* one report call on the ErrorHandler, which becomes e
Report(e) ==
    /\ Len(eh.errors) < MaxReports
    /\ eh' = e
    /\ UNCHANGED <<stream, pr>>
    /\ UNCHANGED <<laVars, lxVars, auxVars>>

DoSyntaxError ==
    \E span \in ReportSpans : \E msg \in {"invalid syntax"} :
        Report(syntax_error(eh, span, msg))

DoUnexpectedChar ==
    \E span \in ReportSpans : \E c \in {"#", "@"} :
        Report(unexpected_char(eh, span, c))

DoUnexpectedToken ==
    \E span \in ReportSpans : \E got \in {"Ignore", "IntLit"} :
        Report(unexpected_token(eh, span, <<"RightParen">>, got))

DoUnexpectedEndOfInput == Report(unexpected_end_of_input(eh))

\* ErrorHandler::new
InitErrorHandler ==
    /\ LookaheadIdle
    /\ LexerIdle
    /\ ParserIdle
    /\ AuxIdle

NextErrorHandler ==
    \/ DoSyntaxError
    \/ DoUnexpectedChar
    \/ DoUnexpectedToken
    \/ DoUnexpectedEndOfInput

SpecErrorHandler == InitErrorHandler /\ [][NextErrorHandler]_vars

(***************************************************************************)
(* lexer/test.rs, lexer/test_utils.rs: one Lexer over a store that grows.  *)
(* Texts are interned while the Lexer lexes: the earlier text, then the    *)
(* canonical text of a token type and a space, up to MaxAppends times.     *)
(***************************************************************************)
MaxAppends == 2

\* tokens_2_str: the canonical text of a token type (TT::Break, which
\* TokenType does not have, is left out)
tokens_2_str(tt) ==
    CASE tt = "LeftParen" -> <<"(">>
      [] tt = "RightParen" -> <<")">>
      [] tt = "LeftBrace" -> <<"{">>
      [] tt = "RightBrace" -> <<"}">>
      [] tt = "Comma" -> <<",">>
      [] tt = "Semicolon" -> <<";">>
      [] tt = "Plus" -> <<"+">>
      [] tt = "Mul" -> <<"*">>
      [] tt = "Mod" -> <<"%">>
      [] tt = "Div" -> <<"/">>
      [] tt = "Minus" -> <<"-">>
      [] tt = "Arrow" -> <<"-", ">">>
      [] tt = "Less" -> <<"<">>
      [] tt = "LessEquals" -> <<"<", "=">>
      [] tt = "Greater" -> <<">">>
      [] tt = "GreaterEquals" -> <<">", "=">>
      [] tt = "Equal" -> <<"=">>
      [] tt = "EqualEqual" -> <<"=", "=">>
      [] tt = "ColonEquals" -> <<":", "=">>
      [] tt = "BangEquals" -> <<"!", "=">>
      [] tt = "Identifier" -> <<"a", "n", "d", "y">>
      [] tt = "IntLit" -> <<"4", "2">>
      [] tt = "And" -> <<"a", "n", "d">>
      [] tt = "False" -> <<"f", "a", "l", "s", "e">>
      [] tt = "For" -> <<"f", "o", "r">>
      [] tt = "Function" -> <<"f", "u", "n", "c", "t", "i", "o", "n">>
      [] tt = "Not" -> <<"n", "o", "t">>
      [] tt = "Or" -> <<"o", "r">>
      [] tt = "Return" -> <<"r", "e", "t", "u", "r", "n">>
      [] tt = "True" -> <<"t", "r", "u", "e">>
      [] tt = "Ignore" -> <<" ">>
      [] tt = "Unknown" -> <<"?">>

\* the token types tokens_2_str knows
CanonicalTypes ==
    {"LeftParen", "RightParen", "LeftBrace", "RightBrace", "Comma",
     "Semicolon", "Plus", "Mul", "Mod", "Div", "Minus", "Arrow", "Less",
     "LessEquals", "Greater", "GreaterEquals", "Equal", "EqualEqual",
     "ColonEquals", "BangEquals", "Identifier", "IntLit", "And", "False",
     "For", "Function", "Not", "Or", "Return", "True", "Ignore", "Unknown"}

\* the text a Lexer has met before: nothing, the padding of make_lexer, an
\* open parenthesis, an open brace
EarlierTexts == {<<>>, <<"\n", " ", " ", " ", " ">>, <<"(">>, <<"{">>}

\* src.intern(tokens_2_str(tt).to_string()); src.intern(" ".to_string())
\* views keeps, for each text appended, the token type, the number of tokens
\* returned before, whether all the earlier text was lexed, whether the
\* Lexer had reported exhaustion, and the mode stack and position at that point
DoAppendCanonical ==
    \E tt \in CanonicalTypes :
        /\ ~lx.panicked
        /\ Len(views) < MaxAppends
        /\ arena' = arena \o tokens_2_str(tt) \o <<" ">>
        /\ views' = Append(views,
                [span |-> [start |-> Len(arena), length |-> Len(tokens_2_str(tt)) + 1],
                 text |-> tokens_2_str(tt) \o <<" ">>, tt |-> tt, at |-> Len(tokens),
                 lexed |-> head_idx(lx.reader) = Len(arena), exhausted |-> done,
                 mode_stack |-> lx.mode_stack])
        /\ UNCHANGED <<lx, tokens, errors, done>>
        /\ UNCHANGED <<alive, rd, yielded, csr, call>>
        /\ UNCHANGED <<laVars, prVars, wkVars>>

\* <Lexer as Iterator>::next over the store as it is now.  call keeps where
\* the Lexer was and its mode stack before the call, whether it returned a
\* token, and whether the call resumes a Lexer that had reported exhaustion
\* over a store that has grown since.
Lexer_next_Relex ==
    /\ ~lx.panicked
    /\ \E res \in {Lexer_dispatch(lx)} :
        /\ lx' = [reader |-> res.reader, mode_stack |-> res.mode_stack,
                  panicked |-> res.panicked]
        /\ tokens' = IF res.some THEN Append(tokens, res.token) ELSE tokens
        /\ errors' = errors \o res.errs
        /\ done' = (~res.some /\ ~res.panicked)
        /\ call' = [op |-> "Lexer::next",
                    arg |-> [from |-> head_idx(lx.reader), mode_stack |-> lx.mode_stack],
                    ret |-> res.some, crashed |-> res.panicked,
                    resumed |-> (done /\ head_idx(lx.reader) < Len(arena))]
    /\ UNCHANGED arena
    /\ UNCHANGED <<alive, views, rd, yielded, csr>>
    /\ UNCHANGED <<laVars, prVars, wkVars>>

\* make_context, make_lexer: the earlier text interned, then Lexer::new(Reader::new())
InitRelex ==
    /\ arena \in EarlierTexts
    /\ lx = Lexer_new
    /\ tokens = <<>>
    /\ errors = <<>>
    /\ done = FALSE
    /\ LookaheadIdle
    /\ ParserIdle
    /\ AuxIdle

NextRelex ==
    \/ Lexer_next_Relex
    \/ DoAppendCanonical

SpecRelex == InitRelex /\ [][NextRelex]_vars

(***************************************************************************)
(* Properties of the Lookahead cursor.                                     *)
(***************************************************************************)

\* C1: a peek() or a reset() leaves the main position unchanged, and a next()
\* returns the item next() would have returned right after the last
\* commit()/next() (or construction), however many peek()/reset() calls were
\* made in between.
C1_PeekResetKeepMain ==
    [][ /\ (DoPeek \/ DoReset) => (la'.main = la.main /\ laAnchor' = laAnchor)
        /\ DoNext => laRet' = laAnchor ]_vars

\* next() right after a peek() and a reset() that followed a peek, with an item returned
C1_Witness ==
    /\ laOps = <<"peek", "reset", "next">>
    /\ laRet # None
    /\ la.main >= 2

\* C2: in every reachable state branch is ahead of or equal to main.
C2_BranchNotBehindMain == la.branch >= la.main

\* branch strictly ahead of a main that has itself moved
C2_Witness == la.branch > la.main /\ la.main > 0 /\ laOps[3] = "peek"

\* C3: a commit() right after a commit(), and a reset() right after a reset(),
\* changes neither position; and when branch = main, commit() and reset()
\* change neither position.
C3_CommitResetIdempotent ==
    [][ /\ (DoCommit /\ laOps[3] = "commit") => (la'.main = la.main /\ la'.branch = la.branch)
        /\ (DoReset /\ laOps[3] = "reset") => (la'.main = la.main /\ la'.branch = la.branch)
        /\ ((DoCommit \/ DoReset) /\ la.branch = la.main)
              => (la'.main = la.main /\ la'.branch = la.branch) ]_vars

\* two commits in a row, the first of which promoted a branch that was ahead
C3_Witness == laOps = <<"peek", "commit", "commit">> /\ la.main > 0

\* C4: the permanently consumed items are, in order, the prefix of the
\* sequence that ends at the main position.
C4_ConsumedIsPrefix ==
    /\ Len(consumed) <= Len(items)
    /\ consumed = SubSeq(items, 1, Len(consumed))
    /\ Len(consumed) = la.main

\* items consumed through a commit after a reset discarded earlier peeks
C4_Witness ==
    /\ laOps = <<"reset", "peek", "commit">>
    /\ Len(consumed) >= 2
    /\ consumed[1] # consumed[2]

\* C5: next() returns the item at the main position whatever was peeked,
\* advances main by one item and leaves branch equal to main; with no item
\* left it returns None and main stays.
C5_NextTakesFromMain ==
    [][ DoNext =>
          /\ la'.branch = la'.main
          /\ IF la.main < Len(items)
             THEN laRet' = items[la.main + 1] /\ la'.main = la.main + 1
             ELSE laRet' = None /\ la'.main = la.main ]_vars

\* next() after two uncommitted peeks returned an item
C5_Witness ==
    /\ laOps = <<"peek", "peek", "next">>
    /\ laRet # None
    /\ la.branch = la.main

(***************************************************************************)
(* Properties of the Lexer.                                                *)
(***************************************************************************)

\* The text is balanced by the language's own rules: every ( [ { is closed by
\* its own closer in nesting order, every double-quoted string is closed,
\* inside a string a backslash escapes the next character and ${ opens an
\* interpolation that its } closes; delimiters inside a raw string '...' or a
\* // comment do not count.  st is the stack of the constructs still open.
RECURSIVE balanced_from(_, _, _)
balanced_from(s, i, st) ==
    IF i > Len(s) THEN st = <<>>
    ELSE LET c == s[i]
             top == last(st)
             nxt == IF i < Len(s) THEN s[i + 1] ELSE None
             quotes == {j \in (i + 1)..Len(s) : s[j] = "'"}
             newlines == {j \in (i + 1)..Len(s) : s[j] = "\n"}
             min(S) == CHOOSE j \in S : \A k \in S : j <= k
         IN  IF top = "\""
             THEN IF c = "\\" THEN nxt # None /\ balanced_from(s, i + 2, st)
                  ELSE IF c = "\"" THEN balanced_from(s, i + 1, pop(st))
                  ELSE IF c = "$" /\ nxt = "{" THEN balanced_from(s, i + 2, Append(st, "${"))
                  ELSE balanced_from(s, i + 1, st)
             ELSE IF c \in {"(", "[", "{", "\""} THEN balanced_from(s, i + 1, Append(st, c))
                  ELSE IF c = ")" THEN top = "(" /\ balanced_from(s, i + 1, pop(st))
                  ELSE IF c = "]" THEN top = "[" /\ balanced_from(s, i + 1, pop(st))
                  ELSE IF c = "}" THEN top \in {"{", "${"} /\ balanced_from(s, i + 1, pop(st))
                  ELSE IF c = "'"
                  THEN IF quotes = {} THEN st = <<>> ELSE balanced_from(s, min(quotes) + 1, st)
                  ELSE IF c = "/" /\ nxt = "/"
                  THEN IF newlines = {} THEN st = <<>> ELSE balanced_from(s, min(newlines), st)
                  ELSE balanced_from(s, i + 1, st)

Balanced(s) == balanced_from(s, 1, <<>>)

RECURSIVE concat_lexemes(_)
concat_lexemes(ts) ==
    IF ts = <<>> THEN <<>>
    ELSE Span_into_string(Head(ts).lexeme) \o concat_lexemes(Tail(ts))

\* C6: the mode stack is never empty and its bottom element is Normal.
C6_BaseModeStays ==
    /\ Len(lx.mode_stack) >= 1
    /\ lx.mode_stack[1] = "Normal"

\* the text is lexed to its end, a mode was popped by its closer and a closer
\* met the bare base mode
C6_Witness ==
    /\ done
    /\ lx.mode_stack = <<"Normal">>
    /\ \E i \in 1..Len(tokens) : tokens[i].token_type = "RightParen"
    /\ \E i \in 1..Len(errors) : errors[i] = "err_unmatched_delimiter"

\* C7: when the Lexer reports exhaustion on a balanced text, the mode stack
\* holds the base Normal mode only.
C7_BalancedEndsAtBase ==
    (done /\ Balanced(arena)) => lx.mode_stack = <<"Normal">>

\* C8: every token has a lexeme of at least one character, so there are at
\* most as many tokens as characters, and the Lexer is never stopped short of
\* reporting exhaustion.
C8_ProgressToExhaustion ==
    /\ \A i \in 1..Len(tokens) : tokens[i].lexeme.length >= 1
    /\ Len(tokens) <= Len(arena)
    /\ ~lx.panicked

\* C9: each lexeme starts where the previous one ended, the first at the
\* start of the text, and once the Lexer has stopped the lexemes, concatenated
\* in order, are the text.
C9_LexemesTileText ==
    /\ \A i \in 1..Len(tokens) :
          tokens[i].lexeme.start =
              IF i = 1 THEN 0 ELSE tokens[i - 1].lexeme.start + tokens[i - 1].lexeme.length
    /\ (done \/ lx.panicked) => concat_lexemes(tokens) = arena

\* C10: the lexeme of every token renders (Display, to_string) as exactly the
\* characters consumed for the token.
C10_RenderIsConsumedText ==
    \A i \in 1..Len(tokens) :
       LET sp == tokens[i].lexeme
           text == SubSeq(arena, sp.start + 1, sp.start + sp.length)
       IN  Span_to_string(sp) = text /\ SourceView_to_string(sp) = text

Closers == {")", "]", "}"}

\* C11: a call of next() in Normal mode whose next character is a closer
\* reports one "unmatched delimiter" diagnostic, returns one Ignore token
\* whose lexeme is that one character and leaves the mode stack as it was;
\* and a call in Normal mode at the end of the input returns None, with no
\* further token or diagnostic.
C11_UnmatchedCloser ==
    [][ /\ (NextNormal /\ peek(lx.reader) \in Closers) =>
              /\ errors' = Append(errors, "err_unmatched_delimiter")
              /\ Len(tokens') = Len(tokens) + 1
              /\ SubSeq(tokens', 1, Len(tokens)) = tokens
              /\ tokens'[Len(tokens')].token_type = "Ignore"
              /\ tokens'[Len(tokens')].lexeme = [start |-> head_idx(lx.reader), length |-> 1]
              /\ lx'.mode_stack = lx.mode_stack
              /\ ~lx'.panicked
        /\ (NextNormal /\ peek(lx.reader) = None) =>
              /\ done'
              /\ tokens' = tokens
              /\ errors' = errors
              /\ lx'.mode_stack = lx.mode_stack ]_vars

\* the text ) alone, lexed to exhaustion
C11_Witness ==
    /\ arena = <<")">>
    /\ done
    /\ Len(tokens) = 1
    /\ tokens[1].token_type = "Ignore"
    /\ errors = <<"err_unmatched_delimiter">>
    /\ lx.mode_stack = <<"Normal">>

\* the closer call: the last call of next() returned one more token, of type
\* tt, for the one character at the reader's position, and popped one mode
ClosedWith(tt) ==
    /\ tokens' = Append(tokens, [token_type |-> tt,
                                 lexeme |-> [start |-> head_idx(lx.reader), length |-> 1],
                                 literal |-> NoLiteral])
    /\ lx'.mode_stack = pop(lx.mode_stack)
    /\ errors' = errors

\* C12: in ParenBlock, BracketBlock and BraceBlock mode a call of next() whose
\* next character is the mode's closer returns the close token of the same
\* family (RightParen for ), RightBracket for ], RightBrace for }) and pops
\* exactly one mode.
C12_CloserOfSameFamily ==
    [][ /\ (NextParenBlock /\ peek(lx.reader) = ")") => ClosedWith("RightParen")
        /\ (NextBracketBlock /\ peek(lx.reader) = "]") => ClosedWith("RightBracket")
        /\ (NextBraceBlock /\ peek(lx.reader) = "}") => ClosedWith("RightBrace") ]_vars

\* Whether the string-body text s has, from position i on, a $ immediately
\* followed by { that no backslash escapes.
RECURSIVE has_unescaped_interpolation(_, _)
has_unescaped_interpolation(s, i) ==
    IF i >= Len(s) THEN FALSE
    ELSE IF s[i] = "\\" THEN has_unescaped_interpolation(s, i + 2)
    ELSE IF s[i] = "$" /\ s[i + 1] = "{" THEN TRUE
    ELSE has_unescaped_interpolation(s, i + 1)

\* C13: a call of next() in String mode at a $ followed by { returns a
\* DollarBrace token for the two characters and pushes Interpolation; and no
\* unescaped ${ of a string body is consumed as ordinary string text, i.e. no
\* StringPart lexeme holds one.
C13_InterpolationAnywhere ==
    /\ [][ (NextString /\ peek(lx.reader) = "$" /\ peek2(lx.reader) = "{") =>
              /\ tokens' = Append(tokens, [token_type |-> "DollarBrace",
                                           lexeme |-> [start |-> head_idx(lx.reader), length |-> 2],
                                           literal |-> NoLiteral])
              /\ lx'.mode_stack = Append(lx.mode_stack, "Interpolation") ]_vars
    /\ [](\A i \in 1..Len(tokens) :
              tokens[i].token_type = "StringPart" =>
                  ~has_unescaped_interpolation(Span_into_string(tokens[i].lexeme), 1))

\* C14: a call of next() in String mode at the end of the input reports an
\* "unclosed" diagnostic and pops the String mode.
C14_UnclosedStringReported ==
    [][ (NextString /\ peek(lx.reader) = None) =>
          /\ errors' = Append(errors, "err_unclosed_delimiter")
          /\ lx'.mode_stack = pop(lx.mode_stack) ]_vars

\* The literal of a string-body text: each backslash with the character after
\* it stands for that one character.
RECURSIVE decode_escapes(_)
decode_escapes(s) ==
    IF s = <<>> THEN <<>>
    ELSE IF Head(s) = "\\" /\ Len(s) >= 2
    THEN <<s[2]>> \o decode_escapes(SubSeq(s, 3, Len(s)))
    ELSE <<Head(s)>> \o decode_escapes(Tail(s))

\* C15: a call of next() in String mode at a backslash followed by a
\* character returns a StringPart token whose lexeme holds both characters
\* and leaves the mode stack as it was (so an escaped quote closes nothing);
\* and the literal of every StringPart token is its lexeme's text with each
\* escape decoded to the one character after the backslash.
C15_EscapeDecoded ==
    /\ [][ (NextString /\ peek(lx.reader) = "\\" /\ peek2(lx.reader) # None) =>
              /\ Len(tokens') = Len(tokens) + 1
              /\ tokens'[Len(tokens')].token_type = "StringPart"
              /\ tokens'[Len(tokens')].lexeme.start = head_idx(lx.reader)
              /\ tokens'[Len(tokens')].lexeme.length >= 2
              /\ lx'.mode_stack = lx.mode_stack ]_vars
    /\ [](\A i \in 1..Len(tokens) :
              (tokens[i].token_type = "StringPart" /\ tokens[i].literal.kind = "String") =>
                  tokens[i].literal.val = decode_escapes(Span_into_string(tokens[i].lexeme)))

\* C16: a call of next() with Interpolation on top whose next character is }
\* returns a RightBrace token for it and pops exactly one mode, after which
\* String is on top; in every state each Interpolation of the mode stack sits
\* directly above a String.
C16_InterpolationAboveString ==
    /\ [][ (NextInterpolation /\ peek(lx.reader) = "}") =>
              /\ ClosedWith("RightBrace")
              /\ last(lx'.mode_stack) = "String" ]_vars
    /\ [](\A i \in 1..Len(lx.mode_stack) :
              lx.mode_stack[i] = "Interpolation" =>
                  (i > 1 /\ lx.mode_stack[i - 1] = "String"))

\* an interpolation was opened inside a string and its } has just closed it
C16_Witness ==
    /\ Len(tokens) >= 3
    /\ tokens[Len(tokens) - 1].token_type = "DollarBrace"
    /\ tokens[Len(tokens)].token_type = "RightBrace"
    /\ lx.mode_stack = <<"Normal", "String">>

\* The operator tokens of TokenType, each with its text.
OperatorTokens ==
    { <<<<"+">>, "Plus">>, <<<<"+", "+">>, "PlusPlus">>, <<<<"+", "=">>, "PlusEquals">>,
      <<<<"+", "+", "=">>, "PlusPlusEquals">>,
      <<<<"*">>, "Mul">>, <<<<"*", "*">>, "MulMul">>, <<<<"*", "=">>, "MulEquals">>,
      <<<<"*", "*", "=">>, "MulMulEquals">>,
      <<<<"-">>, "Minus">>, <<<<"-", "=">>, "MinusEquals">>, <<<<"-", ">">>, "Arrow">>,
      <<<<"/">>, "Div">>, <<<<"/", "=">>, "DivEquals">>,
      <<<<"%">>, "Mod">>, <<<<"%", "=">>, "ModEquals">>,
      <<<<"<">>, "Less">>, <<<<"<", "=">>, "LessEquals">>, <<<<"<", "<">>, "DoubleLess">>,
      <<<<">">>, "Greater">>, <<<<">", "=">>, "GreaterEquals">>, <<<<">", ">">>, "DoubleGreater">>,
      <<<<":">>, "Colon">>, <<<<":", ":">>, "ColonColon">>, <<<<":", "=">>, "ColonEquals">>,
      <<<<"!">>, "Bang">>, <<<<"!", "=">>, "BangEquals">>,
      <<<<"?">>, "Question">>, <<<<"?", "?">>, "DoubleQuestion">>,
      <<<<"?", "?", "=">>, "DoubleQuestionEqual">>,
      <<<<"=">>, "Equal">>, <<<<"=", "=">>, "EqualEqual">>,
      <<<<".">>, "Dot">>, <<<<".", ".", ".">>, "Ellipses">> }

\* the operator tokens whose text is a prefix of the input left at position pos
\* (pos characters already consumed)
PrefixTokens(pos) ==
    {k \in OperatorTokens :
        /\ pos + Len(k[1]) <= Len(arena)
        /\ SubSeq(arena, pos + 1, pos + Len(k[1])) = k[1]}

\* the longest of them
LongestPrefixToken(pos) ==
    CHOOSE k \in PrefixTokens(pos) : \A j \in PrefixTokens(pos) : Len(j[1]) <= Len(k[1])

\* C17: a call of next() in Normal mode whose next character starts an
\* operator (and not a // comment) returns the token of the longest operator
\* text that is a prefix of the remaining input, with exactly that text as
\* its lexeme.
C17_LongestOperator ==
    [][ (/\ NextNormal
         /\ PrefixTokens(head_idx(lx.reader)) # {}
         /\ ~(peek(lx.reader) = "/" /\ peek2(lx.reader) = "/")) =>
            LET k == LongestPrefixToken(head_idx(lx.reader))
            IN  /\ tokens' = Append(tokens, [token_type |-> k[2],
                                             lexeme |-> [start |-> head_idx(lx.reader),
                                                         length |-> Len(k[1])],
                                             literal |-> NoLiteral])
                /\ lx'.mode_stack = lx.mode_stack
                /\ errors' = errors ]_vars

\* the text **= lexed to exhaustion as the one token MulMulEquals
C17_Witness ==
    /\ arena = <<"*", "*", "=">>
    /\ done
    /\ Len(tokens) = 1
    /\ tokens[1].token_type = "MulMulEquals"
    /\ tokens[1].lexeme = [start |-> 0, length |-> 3]

(***************************************************************************)
(* Properties of the Parser.                                               *)
(***************************************************************************)

\* the first call on a fresh Parser was one of ops and has returned
FirstCall(ops) ==
    /\ pr.calls = 1
    /\ pr.op \in ops
    /\ pr.entry = lookahead

\* the BinOperator each operator token stands for, and its binding level
BinOpOf(tt) ==
    CASE tt = "Plus" -> "Add"
      [] tt = "Minus" -> "Sub"
      [] tt = TT_Star -> "Mul"
      [] tt = TT_Slash -> "Div"
      [] tt = TT_Percent -> "Mod"
      [] tt = TT_Pow -> "Pow"

Level(tt) ==
    IF tt \in {"Plus", "Minus"} THEN 1
    ELSE IF tt \in {TT_Star, TT_Slash, TT_Percent} THEN 2 ELSE 3

BinOpTokens == {"Plus", "Minus", TT_Star, TT_Slash, TT_Percent, TT_Pow}

IsLeaf(e) == e.kind = "LE"

\* e is op1(a, op2(b, c)) for literals a, b, c
RightNested(e, op1, op2) ==
    /\ e.kind = "BE" /\ e.op = op1
    /\ IsLeaf(e.lhs)
    /\ e.rhs.kind = "BE" /\ e.rhs.op = op2
    /\ IsLeaf(e.rhs.lhs) /\ IsLeaf(e.rhs.rhs)

\* e is op2(op1(a, b), c) for literals a, b, c
LeftNested(e, op1, op2) ==
    /\ e.kind = "BE" /\ e.op = op2
    /\ IsLeaf(e.rhs)
    /\ e.lhs.kind = "BE" /\ e.lhs.op = op1
    /\ IsLeaf(e.lhs.lhs) /\ IsLeaf(e.lhs.rhs)

\* the token types of a op1 b op2 c
Chain3(o1, o2) == <<"IntLit", o1, "IntLit", o2, "IntLit">>

\* C18: the power operator is right-associative: parse_expression on the
\* tokens of a ** b ** c returns Pow(a, Pow(b, c)).
C18_PowerRightAssociative ==
    (FirstCall({"parse_expression"}) /\ items = Chain3(TT_Pow, TT_Pow))
        => RightNested(pr.ret, "Pow", "Pow")

C20_MatchNeverConsumes ==
    [][pr'.op \in {"match_one", "match_one_of"}
          => /\ la'.main = la.main
             /\ ~pr'.some => la'.branch = la'.main]_vars

\* a match failed with the branch ahead of main when it was called
C20_Witness ==
    /\ pr.op \in {"match_one", "match_one_of"}
    /\ ~pr.some
    /\ pr.entry.branch > pr.entry.main
    /\ la.current # None
    /\ la.branch = la.main
    /\ la.main = pr.entry.main

\* the parse_* methods of the naming convention
ParseMethods ==
    {"parse_term", "parse_factor", "parse_power", "parse_unary", "parse_primary",
     "parse_grouping", "parse_one"}

\* C21: a parse_* method that fails and returns no result has consumed no
\* token: the main position is the one it had when the method was entered.
C21_ParseFailConsumesNothing ==
    (pr.op \in ParseMethods /\ ~pr.some) => la.main = pr.entry.main

\* the productions, which require a token or a sub-expression
Productions ==
    {"parse_expression", "parse_term", "parse_factor", "parse_power", "parse_unary",
     "parse_primary", "parse_grouping", "parse_one"}

\* the diagnostic the ErrorHandler recorded last
LastError == eh.errors[Len(eh.errors)]

\* the last diagnostic names the token at index i of the stream
NamesToken(i) == LastError.span = SomeSpan(stream.tokens[i].lexeme)

\* a production called with nothing peeked ahead that returned no result has
\* reported, last, the next unconsumed token or the end of input
MissingReportsFound ==
    (pr.op \in Productions /\ ~pr.some /\ pr.entry.branch = pr.entry.main)
        => /\ pr.reported >= 1
           /\ IF la.main < Len(items) THEN NamesToken(la.main + 1)
              ELSE LastError.msg = "unexpected end of input"

\* the token types of ( 1 + ) as the Lexer gives them, with its two spaces
ParenOnePlusParen == <<"LeftParen", "IntLit", "Ignore", "Plus", "Ignore", "RightParen">>

\* C22: a production that requires a token or sub-expression that is not
\* there reports a diagnostic naming the token found, or the end of input, and
\* returns no result; parse_expression on ( 1 + ) reports the right-paren.
C22_MissingTokenReported ==
    /\ MissingReportsFound
    /\ (FirstCall({"parse_expression"}) /\ items = ParenOnePlusParen)
           => ~pr.some /\ pr.reported >= 1 /\ NamesToken(6)

\* C23: matching an IntLit token always yields a Literal node: the decoded
\* integer, with nothing reported, when the lexeme is a decimal in range, and
\* otherwise a fallback value with exactly one error reported.
C23_IntLiteralDecoded ==
    (/\ pr.op = "parse_primary"
     /\ pr.entry.branch = pr.entry.main
     /\ pr.entry.main < Len(items)
     /\ items[pr.entry.main + 1] = "IntLit")
        => LET text == Span_into_string(stream.tokens[pr.entry.main + 1].lexeme)
           IN  /\ pr.ret.kind = "LE"
               /\ IF parses_i64(text)
                  THEN pr.ret = LE(i64_value(text)) /\ pr.reported = 0
                  ELSE pr.reported = 1

\* path p is a proper prefix of path q: the node at q is below the node at p
Below(q, p) == Len(p) < Len(q) /\ SubSeq(q, 1, Len(p)) = p

\* C24: walk is a postfix traversal: every callback for a node below a node
\* (its operand sub-expressions) comes before the callbacks for the node's
\* own operator and for the node itself.
C24_WalkPostfix ==
    \A i \in 1..Len(visited) : \A j \in 1..Len(visited) :
        Below(visited[j].path, visited[i].path) => j < i

\* a binary node with a binary operand has been walked, root last
C24_Witness ==
    /\ ast.kind = "BE"
    /\ ast.lhs.kind = "BE"
    /\ visited # <<>>
    /\ visited[Len(visited)] = Callback("visit_expression", <<>>)
    /\ \E i \in 1..Len(visited) : visited[i] = Callback("visit_bin_operator", <<"lhs">>)

(***************************************************************************)
(* Properties of the store, its views and its readers.                     *)
(***************************************************************************)

IsPrefix(pre, text) == Len(pre) <= Len(text) /\ pre = SubSeq(text, 1, Len(pre))

\* C26: a Reader over a view [s, e) of the store yields, through successive
\* advances, the characters of the store at s, s+1, ..., e-1 in order and
\* then the end of input, also when s > 0.
C26_RelativeReaderYieldsView ==
    (/\ rd.boundary.kind = "Relative"
     /\ rd.boundary.start + rd.boundary.length <= Len(arena))
        => /\ IsPrefix(yielded, Span_into_string(rd.boundary))
           /\ (call.op = "Reader::advance_head" /\ call.ret = None)
                => yielded = Span_into_string(rd.boundary)

\* C27: for two views a and b of the same store with a.start <= b.start and
\* a.end <= b.end, a + b is the view that spans from a.start to b.end.
C27_ConcatenateSpans ==
    (/\ call.op \in {"Span::add", "SourceView::add"}
     /\ call.arg[1].start <= call.arg[2].start
     /\ Span_end(call.arg[1]) <= Span_end(call.arg[2]))
        => /\ call.ret.ok
           /\ call.ret.span.start = call.arg[1].start
           /\ Span_end(call.ret.span) = Span_end(call.arg[2])

\* the part of C27 that holds: Add for Span
SpanAddSpans ==
    (/\ call.op = "Span::add"
     /\ call.arg[1].start <= call.arg[2].start
     /\ Span_end(call.arg[1]) <= Span_end(call.arg[2]))
        => /\ call.ret.ok
           /\ call.ret.span.start = call.arg[1].start
           /\ Span_end(call.ret.span) = Span_end(call.arg[2])

\* C28: intern(text) appends the characters of text to the end of the store
\* and returns the view of the appended range [old length, new length), so
\* that rendering the returned view yields text.
C28_InternReturnsAppendedRange ==
    call.op \in {"intern", "SourceArena::intern"}
        => /\ Len(arena) >= Len(call.arg)
           /\ SubSeq(arena, Len(arena) - Len(call.arg) + 1, Len(arena)) = call.arg
           /\ call.ret.ok
           /\ call.ret.span.start = Len(arena) - Len(call.arg)
           /\ Span_end(call.ret.span) = Len(arena)
           /\ Span_into_string(call.ret.span) = call.arg

\* the part of C28 that holds: intern appends the text, the view it returns
\* starts at the old length and renders as the text until more is interned
InternAppendsAndRenders ==
    call.op = "intern"
        => /\ SubSeq(arena, Len(arena) - Len(call.arg) + 1, Len(arena)) = call.arg
           /\ call.ret.ok
           /\ call.ret.span.start = Len(arena) - Len(call.arg)
           /\ Span_into_string(call.ret.span) = call.arg

\* C29: the store is append-only: over any intern its length never
\* decreases, the character at every index already written is unchanged, and
\* every view returned before still renders the same text.
C29_AppendOnly ==
    [][/\ Len(arena') >= Len(arena)
       /\ SubSeq(arena', 1, Len(arena)) = arena
       /\ \A i \in 1..Len(views) :
            Span_into_string(views[i].span)' = Span_into_string(views[i].span)]_vars

\* the part of C29 that holds: the characters written stay where they are
StoreOnlyGrows ==
    [][/\ Len(arena') >= Len(arena)
       /\ SubSeq(arena', 1, Len(arena)) = arena]_vars

\* C30: rendering a view or reading through a reader after the owner of the
\* store has been dropped fails gracefully: it yields a failure value and
\* never crashes the process.
C30_DroppedStoreFailsGracefully ==
    (/\ ~alive
     /\ call.op \in {"SourceView::into_string", "Cursor::peek_n", "Cursor::advance"})
        => ~call.crashed

\* the part of C30 that holds: the Reader of source/reader.rs yields nothing
\* once the owner is gone
CursorFailsGracefully ==
    (~alive /\ call.op \in {"Cursor::peek_n", "Cursor::advance"})
        => ~call.crashed /\ call.ret = None

\* start <= end <= the length of the store
WithinStore(sp) == 0 <= sp.start /\ sp.start <= Span_end(sp) /\ Span_end(sp) <= Len(arena)

\* C31: the window of the Reader and every view it emits satisfy
\* start <= end <= the length of the store, after any sequence of intern,
\* advance_head and advance_tail.
C31_ViewsWithinStore ==
    /\ WithinStore(current_span(rd))
    /\ call.op = "Reader::advance_tail" => WithinStore(call.ret)

\* the Reader has emitted a view that is not empty and does not start at 0,
\* and has advanced to the end of a store of two interned texts
C31_Witness ==
    /\ call.op = "Reader::advance_tail"
    /\ call.ret.start > 0
    /\ call.ret.length > 0
    /\ Span_end(call.ret) = Len(arena)
    /\ Len(views) = MaxInterns

(***************************************************************************)
(* Properties of the Lexer over a store that grows.                        *)
(***************************************************************************)

\* C32: for every token type tt, the canonical text of tt and a space,
\* appended to a store whose earlier text the Lexer has lexed, is lexed as a
\* token of type tt and then an Ignore token.
C32_CanonicalTextLexes ==
    \A i \in 1..Len(views) :
        views[i].lexed
            => /\ Len(tokens) > views[i].at
                    => tokens[views[i].at + 1].token_type = views[i].tt
               /\ Len(tokens) > views[i].at + 1
                    => tokens[views[i].at + 2].token_type = "Ignore"
               /\ (lx.panicked \/ (done /\ is_at_end(lx.reader)))
                    => Len(tokens) >= views[i].at + 2

\* the token types whose canonical text is lexed as C32 says, whatever precedes
LexedAsCanonical ==
    {"LeftParen", "LeftBrace", "Comma", "Semicolon", "Plus", "Mul", "Mod", "Div", "Minus",
     "Arrow", "Less", "LessEquals", "Greater", "GreaterEquals", "Equal", "EqualEqual",
     "ColonEquals", "BangEquals", "Identifier", "IntLit", "Ignore"}

\* the part of C32 that holds: the operators, the opening delimiters, the
\* identifier, the integer literal and the space
CanonicalOperatorsLex ==
    \A i \in 1..Len(views) :
        (views[i].lexed /\ views[i].tt \in LexedAsCanonical)
            => /\ Len(tokens) > views[i].at
                    => tokens[views[i].at + 1].token_type = views[i].tt
               /\ Len(tokens) > views[i].at + 1
                    => tokens[views[i].at + 2].token_type = "Ignore"
               /\ (lx.panicked \/ (done /\ is_at_end(lx.reader)))
                    => Len(tokens) >= views[i].at + 2

\* C33: a Lexer that has reported exhaustion is resumable: after more text
\* is interned its next() yields a token of the appended text, starting where
\* lexing stopped (at the start of the first text appended since) and lexed
\* in the mode the Lexer had at that point.
C33_LexerResumable ==
    (call.op = "Lexer::next" /\ call.resumed)
        => /\ call.ret
           /\ tokens[Len(tokens)].lexeme.start = call.arg.from
           /\ tokens[Len(tokens)].lexeme.length > 0
           /\ \E i \in 1..Len(views) :
                /\ views[i].exhausted
                /\ views[i].span.start = call.arg.from
                /\ views[i].mode_stack = call.arg.mode_stack
                /\ views[i].at = Len(tokens) - 1

\* a Lexer that reported exhaustion inside a parenthesis is resumed on ") "
\* and returns the RightParen
C33_Witness ==
    /\ call.op = "Lexer::next"
    /\ call.resumed
    /\ call.arg.mode_stack = <<"Normal", "ParenBlock">>
    /\ tokens[Len(tokens)].token_type = "RightParen"
    /\ lx.mode_stack = <<"Normal">>

(***************************************************************************)
(* Properties of the proxy modes of the Lexer.                             *)
(***************************************************************************)

\* the closer a proxy mode intercepts
CloserOf(mode) ==
    CASE mode = "ParenBlock" -> ")"
      [] mode = "BracketBlock" -> "]"
      [] mode \in {"BraceBlock", "Interpolation"} -> "}"
      [] OTHER -> None

NoIgnore(tts) == SelectSeq(tts, LAMBDA tt : tt # "Ignore")

\* C35: Ignore tokens are transparent to the Parser: on a op1 b op2 c
\* written with whitespace between operands and operators, parse_expression
\* returns the tree it returns for the text without whitespace (the tree of
\* C19), all tokens consumed.
C35_IgnoreTransparent ==
    \A o1 \in BinOpTokens : \A o2 \in BinOpTokens :
        (/\ FirstCall({"parse_expression"})
         /\ NoIgnore(items) = Chain3(o1, o2)
         /\ ~(o1 = TT_Pow /\ o2 = TT_Pow))
            => /\ la.main = Len(items)
               /\ IF Level(o2) > Level(o1)
                  THEN RightNested(pr.ret, BinOpOf(o1), BinOpOf(o2))
                  ELSE LeftNested(pr.ret, BinOpOf(o1), BinOpOf(o2))

\* the index of the first Semicolon after position pos, 0 when there is none
FirstSemicolonAfter(pos) ==
    IF \E k \in (pos + 1)..Len(items) : items[k] = "Semicolon"
    THEN CHOOSE k \in (pos + 1)..Len(items) :
            /\ items[k] = "Semicolon"
            /\ \A j \in (pos + 1)..(k - 1) : items[j] # "Semicolon"
    ELSE 0

\* C36: synchronize() consumes every token up to and including the first
\* Semicolon at or after the cursor, so that the next token produced is the
\* one right after it; with no Semicolon left it consumes the whole stream.
C36_SynchronizeToSemicolon ==
    pr.op = "synchronize"
        => /\ la.branch = la.main
           /\ la.main = IF FirstSemicolonAfter(pr.entry.main) = 0 THEN Len(items)
                        ELSE FirstSemicolonAfter(pr.entry.main)

\* synchronize has skipped at least one token before the Semicolon, with a
\* token peeked and not committed at entry, and tokens are left after it
C36_Witness ==
    /\ pr.op = "synchronize"
    /\ la.main < Len(items)
    /\ items[la.main] = "Semicolon"
    /\ la.main >= pr.entry.main + 2
    /\ pr.entry.branch > pr.entry.main

(***************************************************************************)
(* Properties of the ErrorHandler.                                         *)
(***************************************************************************)

\* C37: after any sequence of syntax_error, unexpected_char,
\* unexpected_token and unexpected_end_of_input, had_error is true if and
\* only if at least one error has been recorded.
C37_HadErrorIffRecorded == eh.had_error <=> eh.errors # <<>>

\* the part of C37 that holds: had_error is set only when an error is recorded
HadErrorOnlyIfRecorded == eh.had_error => eh.errors # <<>>

(***************************************************************************)
(* Properties of the Parser and the diagnostics of its Lexer.              *)
(***************************************************************************)

\* the lexical errors of the first k tokens of the source, in order
RECURSIVE LexicalErrors(_)
LexicalErrors(k) ==
    IF k = 0 THEN <<>> ELSE LexicalErrors(k - 1) \o stream.errs[k]

\* C38: each lexical error of the source is reported once, however many
\* times the Parser peeks at the offending token, resets and peeks at it
\* again: what has been reported is the errors of the tokens lexed so far,
\* each once.
C38_LexicalErrorsOnce ==
    \E k \in 0..Len(items) : errors = LexicalErrors(k)

\* the part of C38 that holds: a call that peeks no token twice, as
\* synchronize, reports every error once
SynchronizeReportsOnce ==
    (pr.calls = 1 /\ pr.op = "synchronize")
        => \E k \in 0..Len(items) : errors = LexicalErrors(k)

(***************************************************************************)
(* Properties of the ExpressionEval visitor.                               *)
(***************************************************************************)

\* what the expression e denotes, its operands taken in source order: the
\* outcomes of lhs op rhs over the outcomes of its operands
RECURSIVE Denote(_)
Denote(e) ==
    CASE e.kind = "LE" -> {Value_Int(e.value)}
      [] e.kind = "UE" ->
            UNION {IF r.ok THEN Value_neg(r.value) ELSE {ValuePanicked} :
                      r \in Denote(e.rhs)}
      [] e.kind = "BE" ->
            UNION {IF l.ok /\ r.ok THEN Value_bin(e.op, l.value, r.value)
                   ELSE {ValuePanicked} :
                      l \in Denote(e.lhs), r \in Denote(e.rhs)}

\* the walk of ast is over: every callback is made, or one has panicked
WalkOver == NextCallback = {}

\* the value on top of the stack is what the node at path denotes
TopDenotes(path) ==
    /\ ev.stack # <<>>
    /\ Value_Int(ev.stack[Len(ev.stack)]) \in Denote(Subtree(ast, path))

\* visit_bin_operator has just returned for the node at the last path visited
AfterBinOperator ==
    /\ visited # <<>>
    /\ visited[Len(visited)].cb = "visit_bin_operator"
    /\ ~ev.crashed

C40_ConsumeYieldsWindow ==
    [][/\ call'.op = "VecCursor::consume"
            => /\ call'.ret = SomeOf(pending)
               /\ VecCursor_window_len(vc') = 0
       /\ call'.op = "Cursor::consume"
            => /\ call'.ret = SomeOf(SourceString(csr.front - Len(yielded), csr.front))
               /\ Cursor_window_len(csr') = 0
       /\ call'.op = "VecCursor::reset"
            => /\ VecCursor_window_len(vc') = 0
               /\ VecCursor_advance(vc').ret = Vec_get(vc.back)
       /\ call'.op = "Cursor::reset"
            => /\ Cursor_window_len(csr') = 0
               /\ Cursor_advance(csr').ret = get_from_inner(csr.back)]_vars

\* the part of C40 that holds: before the front reaches the end of the
\* input consume() yields what was advanced over and empties the window, and
\* reset() empties the window wherever the front is
ConsumeBeforeTheEnd ==
    [][/\ (call'.op = "VecCursor::consume" /\ vc.front < Len(items))
            => /\ call'.ret = SomeOf(pending)
               /\ VecCursor_window_len(vc') = 0
       /\ (call'.op = "Cursor::consume" /\ csr.front < Len(arena))
            => /\ call'.ret = SomeOf(SourceString(csr.front - Len(yielded), csr.front))
               /\ Cursor_window_len(csr') = 0
       /\ call'.op = "VecCursor::reset"
            => /\ VecCursor_window_len(vc') = 0
               /\ VecCursor_advance(vc').ret = Vec_get(vc.back)
       /\ call'.op = "Cursor::reset"
            => /\ Cursor_window_len(csr') = 0
               /\ Cursor_advance(csr').ret = get_from_inner(csr.back)]_vars

====
